---- MODULE Spec2Model ----
(***************************************************************************)
(* A model of the aggregation pipeline of ai-news-radar: the orchestrator  *)
(* (skill/core/news_radar.py), the filters it drives, the parsers'         *)
(* fetch_and_parse boundary and the state store (skill/state.py).          *)
(*                                                                         *)
(* Time is an integer clock.  A datetime is a record [kind, t] where kind  *)
(* tells whether the value carries a UTC offset ("aware"), carries none    *)
(* ("naive") or is absent ("none").                                        *)
(***************************************************************************)
EXTENDS Integers, Sequences, FiniteSets, TLC

\* ---------------------------------------------------------------- bounds
MaxSources == 2      \* configured sources per run
MaxFeedLen == 1      \* entries an upstream feed serves
MaxTime == 2         \* last value of the clock
MaxRuns == 2         \* aggregation runs in one behaviour
MaxOpmlFeeds == 1    \* feed pointers an OPML document lists
MaxStateOps == 4     \* writes, clears and damages of the state file in one behaviour
MaxCount == 2        \* largest article count passed to update_source_stats
MaxStoreOps == 3     \* saves, appends and damages of the storage file in one behaviour
MaxBatch == 2        \* articles in one list handed to the article store
MaxDupCalls == 3     \* filter() calls on one DuplicateFilter in one behaviour
MaxTitleCalls == 2   \* filter() calls on one title-only DuplicateFilter in one behaviour
MaxMatches == 4      \* keywords of one tier found in one article's text
MaxEntries == 3      \* entries of a feed (elements of a page) handed to parse with a cap
MaxCap == 3          \* the largest max_entries / max_articles tried
MaxCacheOps == 3     \* operations on one CacheManager in one behaviour
MaxRaceCalls == 4    \* calls made by the processes that share the files
MaxHashBatch == 2    \* articles in one list filtered by content hash
Hours == 1           \* RadarConfig.update_interval_hours, in clock units

\* An optional datetime: Python's None, or an aware UTC datetime.
Nothing == [has |-> FALSE, t |-> 0]
Just(t) == [has |-> TRUE, t |-> t]

\* ------------------------------------------------------------ data model
SourceTypes == {"rss", "html", "opml", "unknown"}

NoDate == [kind |-> "none", t |-> 0]
Aware(t) == [kind |-> "aware", t |-> t]
Naive(t) == [kind |-> "naive", t |-> t]

\* Titles are strings over a small alphabet: 1..9 and 21..29 are lower-case
\* letters, 11..19 and 31..39 the corresponding upper-case letters, 0 is the
\* space.
TitleAbc == <<1, 2, 3>>
TitleAbcd == <<1, 2, 3, 4>>
TitleXY == <<18, 19>>
TitleXy == <<18, 9>>
TitleA == <<1>>                                                     \* "a"
TitleLowerAbc == <<1, 2, 3>>                                        \* "abc"
TitleUpperAbc == <<11, 2, 3>>                                       \* "Abc"
TitleAiNews == <<11, 31, 0, 32, 23, 24, 25>>                        \* "AI News"
TitleAiNewsToday == <<11, 31, 0, 32, 23, 24, 25, 0, 36, 27, 4, 1, 9>>  \* "AI News Today"

\* What an upstream feed or page can serve: a raw entry.  hasDate tells
\* whether the entry has a published time, tz whether that time is written
\* with a UTC offset; tiers are the keyword tiers its text matches.
EntryPool ==
    { [url |-> "u1", title |-> TitleAbc,  hasDate |-> TRUE,  tz |-> TRUE,  t |-> 1, tiers |-> {"primary"}],
      [url |-> "u2", title |-> TitleAbcd, hasDate |-> TRUE,  tz |-> FALSE, t |-> 0, tiers |-> {"secondary", "alias"}],
      [url |-> "u1", title |-> TitleXY,   hasDate |-> FALSE, tz |-> FALSE, t |-> 0, tiers |-> {"alias"}],
      [url |-> "u3", title |-> TitleXy,   hasDate |-> TRUE,  tz |-> TRUE,  t |-> 2, tiers |-> {}] }

RECURSIVE SeqsUpTo(_, _)
SeqsUpTo(S, n) ==
    IF n = 0 THEN { <<>> }
    ELSE LET shorter == SeqsUpTo(S, n - 1)
         IN shorter \cup { Append(s, x) : s \in { q \in shorter : Len(q) = n - 1 }, x \in S }

Feeds == SeqsUpTo(EntryPool, MaxFeedLen)

Range(s) == { s[i] : i \in 1..Len(s) }

Min(a, b) == IF a < b THEN a ELSE b

\* --------------------------------------------------------------- parsers
\* RSSParser._parse_date builds datetime(*published_parsed[:6]): the value
\* never carries an offset.
RssParseDate(e) == IF e.hasDate THEN Naive(e.t) ELSE NoDate

\* HTMLParser._parse_date hands the date text to dateutil: the value carries
\* an offset exactly when the text does.
HtmlParseDate(e) ==
    IF ~e.hasDate THEN NoDate
    ELSE IF e.tz THEN Aware(e.t) ELSE Naive(e.t)

\* An Article as parse() + normalize() returns it; ai_score is the transient
\* "_ai_score" key, -1 while the key is absent.
RssArticle(e) ==
    [url |-> e.url, title |-> e.title, date |-> RssParseDate(e),
     tiers |-> e.tiers, ai_score |-> -1]

HtmlArticle(e) ==
    [url |-> e.url, title |-> e.title, date |-> HtmlParseDate(e),
     tiers |-> e.tiers, ai_score |-> -1]

RssParse(feed) == [i \in 1..Len(feed) |-> RssArticle(feed[i])]
HtmlParse(page) == [i \in 1..Len(page) |-> HtmlArticle(page[i])]

\* fetch_and_parse of both parsers: FetchError and ParseError are caught
\* inside and become the empty list; any other exception escapes.
FetchOutcomes == {"ok", "fetch_error", "parse_error", "exception"}

RssFetchAndParse(feed, outcome) ==
    IF outcome = "ok" THEN RssParse(feed) ELSE <<>>

HtmlFetchAndParse(page, outcome) ==
    IF outcome = "ok" THEN HtmlParse(page) ELSE <<>>

\* ------------------------------------------------- incremental time slice
\* NewsRadar._filter_by_time: article_date > since raises TypeError when
\* article_date is naive and since is aware; the handler keeps the article.
KeptByTimeSlice(a, since) ==
    \/ a.date.kind = "none"
    \/ a.date.kind = "naive"
    \/ a.date.kind = "aware" /\ a.date.t > since

FilterByTime(articles, since) ==
    SelectSeq(articles, LAMBDA a : KeptByTimeSlice(a, since))

\* ----------------------------------------------------------- time filter
\* TimeFilter._parse_date: a naive datetime is read as UTC.
TimeFilterParseDate(d) == IF d.kind = "none" THEN Nothing ELSE Just(d.t)

\* (variant: an article without a date passes)
InWindowOrUndated(a, cutoff) ==
    \/ ~TimeFilterParseDate(a.date).has
    \/ TimeFilterParseDate(a.date).t >= cutoff

InWindow(a, cutoff) ==
    /\ TimeFilterParseDate(a.date).has
    /\ TimeFilterParseDate(a.date).t >= cutoff

TimeFilter(articles, cutoff) ==
    SelectSeq(articles, LAMBDA a : InWindow(a, cutoff))

\* ---------------------------------------------------------- topic filter
\* (variant: the secondary keywords are looked at before the primary ones)
ScoreSecondaryFirst(a) ==
    IF "secondary" \in a.tiers THEN 7
    ELSE IF "primary" \in a.tiers THEN 10
    ELSE IF "alias" \in a.tiers THEN 5
    ELSE 0

\* AITopicFilter.score, in tenths.
Score(a) ==
    IF "primary" \in a.tiers THEN 10
    ELSE IF "secondary" \in a.tiers THEN 7
    ELSE IF "alias" \in a.tiers THEN 5
    ELSE 0

MinScore == 5

\* "article["_ai_score"] = score"
Scored(a) == [a EXCEPT !.ai_score = Score(a)]

\* (variant: the articles that pass come back last first)
TopicFilterLastFirst(articles) ==
    LET passed == SelectSeq(articles, LAMBDA a : Score(a) >= MinScore)
    IN [i \in 1..Len(passed) |->
          [passed[Len(passed) + 1 - i] EXCEPT !.ai_score = Score(passed[Len(passed) + 1 - i])]]

TopicFilter(articles) ==
    LET passed == SelectSeq(articles, LAMBDA a : Score(a) >= MinScore)
    IN [i \in 1..Len(passed) |-> [passed[i] EXCEPT !.ai_score = Score(passed[i])]]

\* ------------------------------------------------------ duplicate filter
Lower(title) ==
    [i \in 1..Len(title) |->
        IF title[i] \in (11..19) \cup (31..39) THEN title[i] - 10 ELSE title[i]]

\* difflib.SequenceMatcher.find_longest_match: the longest common block,
\* the one starting earliest in a, then earliest in b.
LongestMatch(a, b) ==
    LET Blocks(k) == { p \in (1..(Len(a) - k + 1)) \X (1..(Len(b) - k + 1)) :
                         SubSeq(a, p[1], p[1] + k - 1) = SubSeq(b, p[2], p[2] + k - 1) }
        sizes == { k \in 1..Min(Len(a), Len(b)) : Blocks(k) # {} }
    IN IF sizes = {} THEN [i |-> 0, j |-> 0, k |-> 0]
       ELSE LET k == CHOOSE x \in sizes : \A y \in sizes : y <= x
                i == CHOOSE x \in { p[1] : p \in Blocks(k) } :
                        \A p \in Blocks(k) : x <= p[1]
                j == CHOOSE x \in { p[2] : p \in { q \in Blocks(k) : q[1] = i } } :
                        \A p \in { q \in Blocks(k) : q[1] = i } : x <= p[2]
            IN [i |-> i, j |-> j, k |-> k]

\* The total size of SequenceMatcher.get_matching_blocks.
RECURSIVE MatchCount(_, _)
MatchCount(a, b) ==
    LET m == LongestMatch(a, b)
    IN IF m.k = 0 THEN 0
       ELSE m.k
            + MatchCount(SubSeq(a, 1, m.i - 1), SubSeq(b, 1, m.j - 1))
            + MatchCount(SubSeq(a, m.i + m.k, Len(a)), SubSeq(b, m.j + m.k, Len(b)))

\* title_similarity_threshold = 0.85, in hundredths.
SimilarityThreshold == 85

\* (variant: a ratio equal to the threshold does not count)
SimilarAtStrict(a, b, threshold) ==
    IF Len(a) + Len(b) = 0 THEN 100 > threshold
    ELSE 200 * MatchCount(a, b) > threshold * (Len(a) + Len(b))

\* SequenceMatcher(None, a, b).ratio() >= threshold, ratio = 2*M/T (1.0 when
\* both strings are empty); the threshold is in hundredths.
SimilarAt(a, b, threshold) ==
    IF Len(a) + Len(b) = 0 THEN 100 >= threshold
    ELSE 200 * MatchCount(a, b) >= threshold * (Len(a) + Len(b))

Similar(a, b) == SimilarAt(a, b, SimilarityThreshold)

\* The character "|" among the codes of the alphabet.
Pipe == 40

\* article.get(key, ""): the empty text for a key the article does not have.
Field(a, key) == IF key \in DOMAIN a THEN a[key] ELSE <<>>

\* "|".join(parts)
RECURSIVE JoinWithPipe(_)
JoinWithPipe(parts) ==
    IF parts = <<>> THEN <<>>
    ELSE IF Len(parts) = 1 THEN parts[1]
    ELSE parts[1] \o <<Pipe>> \o JoinWithPipe(Tail(parts))

\* DuplicateFilter._compute_content_hash: the MD5 of the non-empty ones of
\* title, description and source joined with "|", each as written (not
\* lowercased).  The hash stands for the text hashed: distinct texts have
\* distinct hashes, and the hash of the empty text is a non-empty string as
\* well.
ContentHash(a) ==
    JoinWithPipe(SelectSeq(<<a.title, Field(a, "description"), Field(a, "source")>>,
                           LAMBDA part : part # <<>>))

\* (variant: the URL check is left out)
IsDuplicateByTitleOnly(a, by_url, by_title, by_content, threshold, urls, titles, hashes) ==
    \/ by_title /\ (\/ Lower(a.title) \in titles
                    \/ \E seen \in titles : SimilarAt(Lower(a.title), seen, threshold))
    \/ by_content /\ ContentHash(a) \in hashes

\* DuplicateFilter._is_duplicate: the URL among the seen ones, the lowercased
\* title equal or similar to a seen one, or the content hash among the seen
\* ones, each only when its check is enabled.
IsDuplicateBy(a, by_url, by_title, by_content, threshold, urls, titles, hashes) ==
    \/ by_url /\ a.url \in urls
    \/ by_title /\ (\/ Lower(a.title) \in titles
                    \/ \E seen \in titles : SimilarAt(Lower(a.title), seen, threshold))
    \/ by_content /\ ContentHash(a) \in hashes

\* (variant: the URL is tracked whether empty or not)
TrackUrlAlways(a, by_url, urls) == IF by_url THEN urls \cup {a.url} ELSE urls

\* DuplicateFilter._track_article: a non-empty URL, a non-empty title and the
\* content hash of a kept article join the seen sets of the enabled checks.
TrackUrl(a, by_url, urls) == IF by_url /\ a.url # "" THEN urls \cup {a.url} ELSE urls
TrackTitle(a, by_title, titles) ==
    IF by_title /\ a.title # <<>> THEN titles \cup {Lower(a.title)} ELSE titles
TrackHash(a, by_content, hashes) ==
    IF by_content THEN hashes \cup {ContentHash(a)} ELSE hashes

\* DuplicateFilter.filter: the loop over the articles, tracking every kept
\* one.  The result carries the kept list and the seen sets afterwards.
RECURSIVE DupLoopBy(_, _, _, _, _, _, _, _, _)
DupLoopBy(articles, by_url, by_title, by_content, threshold, kept, urls, titles, hashes) ==
    IF articles = <<>>
    THEN [kept |-> kept, urls |-> urls, titles |-> titles, hashes |-> hashes]
    ELSE LET a == Head(articles)
         IN IF IsDuplicateBy(a, by_url, by_title, by_content, threshold, urls, titles, hashes)
            THEN DupLoopBy(Tail(articles), by_url, by_title, by_content, threshold, kept,
                           urls, titles, hashes)
            ELSE DupLoopBy(Tail(articles), by_url, by_title, by_content, threshold,
                           Append(kept, a),
                           TrackUrl(a, by_url, urls), TrackTitle(a, by_title, titles),
                           TrackHash(a, by_content, hashes))

\* The orchestrator's filter: by_url = enable_deduplication, the rest at the
\* defaults (by_title = True, threshold 0.85, by_content = False).
IsDuplicate(a, by_url, urls, titles) ==
    IsDuplicateBy(a, by_url, TRUE, FALSE, SimilarityThreshold, urls, titles, {})

DupLoop(articles, by_url, kept, urls, titles) ==
    LET r == DupLoopBy(articles, by_url, TRUE, FALSE, SimilarityThreshold,
                       kept, urls, titles, {})
    IN [kept |-> r.kept, urls |-> r.urls, titles |-> r.titles]

DuplicateFilter(articles, by_url, urls, titles) ==
    DupLoop(articles, by_url, <<>>, urls, titles)

\* ------------------------------------------------------- filter pipeline
\* (variant: the duplicate filter runs first)
ApplyFiltersDuplicatesFirst(articles, cutoff, dedup, urls, titles) ==
    LET d == IF dedup THEN DuplicateFilter(articles, dedup, urls, titles)
             ELSE [kept |-> articles, urls |-> urls, titles |-> titles]
    IN [kept |-> TopicFilter(TimeFilter(d.kept, cutoff)), urls |-> d.urls, titles |-> d.titles]

\* (variant: every call filters with a new DuplicateFilter)
ApplyFiltersNewDuplicateFilter(articles, cutoff, dedup, urls, titles) ==
    LET timed == TimeFilter(articles, cutoff)
        onTopic == TopicFilter(timed)
    IN IF dedup THEN DuplicateFilter(onTopic, dedup, {}, {})
       ELSE [kept |-> onTopic, urls |-> urls, titles |-> titles]

\* NewsRadar._apply_filters: time, topic, then the duplicate filter when
\* deduplication is enabled.  Returns the list and the seen sets afterwards.
ApplyFiltersResult(articles, cutoff, dedup, urls, titles) ==
    LET timed == TimeFilter(articles, cutoff)
        onTopic == TopicFilter(timed)
    IN IF dedup THEN DuplicateFilter(onTopic, dedup, urls, titles)
       ELSE [kept |-> onTopic, urls |-> urls, titles |-> titles]

\* ------------------------------------------------------------ state store
\* The state document: last_fetch_time and source_stats (a missing key is
\* Nothing / the empty mapping, which is what State.load's {} gives).
EmptyStateDoc == [last_fetch_time |-> Nothing, source_stats |-> <<>>]

\* State.get_last_fetch_time: datetime.fromisoformat of the stored string.
GetLastFetchTime(doc) == doc.last_fetch_time

\* (variant: the document is saved without the new timestamp)
SetLastFetchTimeUnsaved(doc, ts) == doc

\* (variant: a fresh document is written)
SetLastFetchTimeFresh(doc, ts) == [last_fetch_time |-> Just(ts), source_stats |-> <<>>]

\* State.set_last_fetch_time: load, assign the key, save.
SetLastFetchTime(doc, ts) == [doc EXCEPT !.last_fetch_time = Just(ts)]

\* The entry of source s in a state document (zeros when there is none).
StatsOf(doc, s) ==
    IF s \in DOMAIN doc.source_stats THEN doc.source_stats[s]
    ELSE [total_articles |-> 0, fetch_count |-> 0, last_fetch |-> 0]

\* (variant: nothing is recorded for a source that brought no article)
UpdateSourceStatsSkipEmpty(doc, source, articles_count, ts) ==
    IF articles_count = 0 THEN doc
    ELSE LET old == IF source \in DOMAIN doc.source_stats
                    THEN doc.source_stats[source]
                    ELSE [total_articles |-> 0, fetch_count |-> 0, last_fetch |-> 0]
             new == [total_articles |-> old.total_articles + articles_count,
                     fetch_count |-> old.fetch_count + 1,
                     last_fetch |-> ts]
         IN [doc EXCEPT !.source_stats =
                 [s \in (DOMAIN doc.source_stats) \cup {source} |->
                     IF s = source THEN new ELSE doc.source_stats[s]]]

\* (variant: the count replaces the total instead of adding to it)
UpdateSourceStatsOverwrite(doc, source, articles_count, ts) ==
    LET old == IF source \in DOMAIN doc.source_stats
               THEN doc.source_stats[source]
               ELSE [total_articles |-> 0, fetch_count |-> 0, last_fetch |-> 0]
        new == [total_articles |-> articles_count,
                fetch_count |-> old.fetch_count + 1,
                last_fetch |-> ts]
    IN [doc EXCEPT !.source_stats =
            [s \in (DOMAIN doc.source_stats) \cup {source} |->
                IF s = source THEN new ELSE doc.source_stats[s]]]

\* State.update_source_stats: load, add to the entry of the source, save.
UpdateSourceStats(doc, source, articles_count, ts) ==
    LET old == IF source \in DOMAIN doc.source_stats
               THEN doc.source_stats[source]
               ELSE [total_articles |-> 0, fetch_count |-> 0, last_fetch |-> 0]
        new == [total_articles |-> old.total_articles + articles_count,
                fetch_count |-> old.fetch_count + 1,
                last_fetch |-> ts]
    IN [doc EXCEPT !.source_stats =
            [s \in (DOMAIN doc.source_stats) \cup {source} |->
                IF s = source THEN new ELSE doc.source_stats[s]]]

\* ---------------------------------------------------------- article store
\* "existing_urls = {a.get("url") for a in existing_articles}", over the
\* "articles" array of the snapshot.
ExistingUrls(file) == { file[i].url : i \in 1..Len(file) }

StoredPool == { HtmlArticle(e) : e \in { x \in EntryPool : x.url = "u1" /\ x.hasDate } }

\* ------------------------------------------------------------ orchestrator
VARIABLES
    config,         \* RadarConfig: sources, state store configured, enable_deduplication
    upstream,       \* what each configured feed/page serves, where it is fixed
    storage,        \* the articles of the storage file
    stateDoc,       \* the state document
    now,            \* the clock
    stats,          \* NewsRadar.stats
    seen_urls,      \* DuplicateFilter.seen_urls
    seen_titles,    \* DuplicateFilter.seen_titles
    cutoff_time,    \* TimeFilter.cutoff_time
    pc,             \* position of the running call
    call,           \* the entry point of the current run
    idx,            \* index of the next source of the loop
    all_articles,   \* the local all_articles
    last_fetch,     \* the local last_fetch
    existing_urls,  \* the local existing_urls
    returned,       \* the list the call returned (or will return)
    runs,           \* runs started so far
    last_outcome,   \* what the latest _process_source call met
    hist,           \* per run (the one before, this one): sources whose content did not come through
    state_file,     \* condition of the state file on disk
    state_op,       \* the latest State operation and how it ended
    state_ghost,    \* what was passed to the state store since it was last absent
    store_file,     \* condition of the storage file on disk
    backups,        \* the backup files beside it, by the timestamp in their name
    store_pc,       \* position inside JSONStorage.save
    store_op,       \* the latest JSONStorage operation and how it ended
    dup,            \* a DuplicateFilter used on its own: its switches, what it was given and gave back
    applied,        \* the latest call of a component function made on its own: arguments and result
    cache,          \* a CacheManager: its files, and the latest and the previous operation on it
    procs           \* two processes working on the same files: the call of each and how far it is

vars == <<config, upstream, storage, stateDoc, now, stats, seen_urls, seen_titles,
          cutoff_time, pc, call, idx, all_articles, last_fetch, existing_urls,
          returned, runs, last_outcome, hist, state_file, state_op, state_ghost,
          store_file, backups, store_pc, store_op, dup, applied, cache, procs>>

radarVars == <<stats, seen_urls, seen_titles, cutoff_time>>
stateVars == <<state_file, state_op, state_ghost>>
storeVars == <<store_file, backups, store_pc, store_op>>
envVars == <<config, upstream, storage, stateVars, storeVars, dup, applied, cache, procs>>
localVars == <<call, idx, all_articles, last_fetch, existing_urls, returned>>

NumSources == Len(config.sources)

ZeroStats ==
    [total_fetched |-> 0, total_filtered |-> 0, total_kept |-> 0,
     sources_processed |-> 0, sources_failed |-> 0, new_articles |-> 0]

\* source.get("name", "unknown"): the sources are named after their position.
SourceName(i) == i

\* The run is incremental when aggregate_incremental was called and a state
\* store is configured; otherwise aggregate_incremental falls back to
\* aggregate().
Incremental == call = "aggregate_incremental" /\ config.hasState

Configs ==
    { [sources |-> s, hasState |-> h, enable_deduplication |-> d] :
        s \in SeqsUpTo(SourceTypes, MaxSources), h \in BOOLEAN, d \in BOOLEAN }

\* What is remembered of a run: its entry point, the sources whose content
\* did not come through, and the update_source_stats calls made, in order.
NoRun == [call |-> "none", failed |-> {}, calls |-> <<>>]

\* Nothing has run on this NewsRadar: no earlier run, no call completed
\* (done), no article returned by its duplicate filter (past).
NoHist == [prev |-> NoRun, cur |-> NoRun, past |-> {}, done |-> 0]

\* The sources whose statistics the state store keeps.
StateSources == 1..MaxSources

NoStateOp == [op |-> "none", source |-> 0, count |-> 0, raised |-> FALSE,
              value |-> Nothing, before |-> EmptyStateDoc, isDoc |-> TRUE]

ZeroCounters == [s \in StateSources |-> [total_articles |-> 0, fetch_count |-> 0]]

\* The state file as the orchestrator's runs meet it: never damaged, every
\* save succeeding ("sound": absent, or holding stateDoc).
StateIdle ==
    /\ state_file = "sound"
    /\ state_op = NoStateOp
    /\ state_ghost = [sums |-> ZeroCounters, high |-> ZeroCounters, clean |-> TRUE, ops |-> 0]

NoStoreOp == [op |-> "none", batch |-> <<>>, articles |-> <<>>, backup |-> FALSE, overwrite |-> FALSE,
              deduplicate |-> FALSE, prior |-> <<>>, priorFile |-> "absent",
              failed |-> FALSE, raised |-> FALSE, result |-> <<>>, ops |-> 0]

\* The storage file as the orchestrator's runs meet it: absent or holding
\* the articles of storage, no backup beside it, nobody writing.
StoreIdle ==
    /\ store_file = IF storage = <<>> THEN "absent" ELSE "sound"
    /\ backups = <<>>
    /\ store_pc = "idle"
    /\ store_op = NoStoreOp

\* A DuplicateFilter() nobody has called yet.
NoDup == [by_url |-> TRUE, by_title |-> TRUE, by_content |-> FALSE,
          threshold |-> SimilarityThreshold, seen_hashes |-> {},
          presented |-> <<>>, kept |-> <<>>, calls |-> 0, resets |-> 0,
          first |-> [articles |-> <<>>, kept |-> <<>>]]

DupIdle == dup = NoDup

\* No component function has been called on its own.
NoApplied == [fn |-> "none"]

\* The keys used with the cache, and what can be cached: two JSON values
\* and null (Python's None).
CacheKeys == {"k1", "k2"}
CacheValues == {"v1", "v2", "none"}

\* A cache file: whether it exists, its modification time, and what
\* json.load reads from it ("corrupt": not JSON, as a write that failed
\* half-way leaves it).
NoFile == [exists |-> FALSE, mtime |-> 0, content |-> "none"]

NoCacheOp == [op |-> "none", key |-> "k1", at |-> 0, ttl |-> Nothing, value |-> "none",
              before |-> NoFile, called |-> FALSE, result |-> "none"]

\* A CacheManager on an empty directory.  latest remembers, for each key,
\* the value most recently handed to set() since the key was last cleared,
\* and when.
NoCache ==
    [files |-> [k \in CacheKeys |-> NoFile],
     latest |-> [k \in CacheKeys |-> [has |-> FALSE, value |-> "none", at |-> 0]],
     op |-> NoCacheOp, prev |-> NoCacheOp, ops |-> 0]

\* The processes that share the files, and a process that has no call to
\* make.
Procs == {1, 2}

NoProc == [op |-> "none", source |-> 0, count |-> 0, batch |-> <<>>, pc |-> "done",
           doc |-> EmptyStateDoc, articles |-> <<>>, mixed |-> FALSE]

\* Nobody has called anything: no file has a last writer, no update and no
\* append has completed.  last is the call that wrote each file last.
NoProcs ==
    [of |-> [p \in Procs |-> NoProc],
     last |-> [state |-> NoProc, store |-> NoProc],
     updates |-> [s \in 1..MaxSources |-> 0],
     appended |-> {},
     calls |-> 0]

InitRadar ==
    /\ storage \in SeqsUpTo(StoredPool, 1)
    /\ stateDoc = EmptyStateDoc
    /\ StateIdle
    /\ StoreIdle
    /\ DupIdle
    /\ applied = NoApplied
    /\ cache = NoCache
    /\ procs = NoProcs
    /\ now = 0
    /\ stats = ZeroStats
    /\ seen_urls = {}
    /\ seen_titles = {}
    /\ cutoff_time = now - Hours
    /\ pc = "idle"
    /\ call = "none"
    /\ idx = 1
    /\ all_articles = <<>>
    /\ last_fetch = Nothing
    /\ existing_urls = {}
    /\ returned = <<>>
    /\ runs = 0
    /\ last_outcome = "none"
    /\ hist = NoHist

Init ==
    /\ config \in Configs
    /\ upstream = <<>>
    /\ InitRadar

\* NewsRadar.__init__ in a fresh process: new stats, new filters.
NewRadar ==
    /\ pc = "idle"
    /\ stats' = ZeroStats
    /\ seen_urls' = {}
    /\ seen_titles' = {}
    /\ cutoff_time' = now - Hours
    /\ hist' = [hist EXCEPT !.past = {}, !.done = 0]
    /\ UNCHANGED <<envVars, stateDoc, now, pc, localVars, runs, last_outcome>>

\* Time passes between runs; a run takes less than one unit of the clock.
Tick ==
    /\ pc = "idle"
    /\ now < MaxTime
    /\ now' = now + 1
    /\ UNCHANGED <<envVars, stateDoc, radarVars, pc, localVars, runs, last_outcome, hist>>

StartRun ==
    /\ runs' = runs + 1
    /\ idx' = 1
    /\ all_articles' = <<>>
    /\ returned' = <<>>
    /\ last_outcome' = "none"
    /\ hist' = [hist EXCEPT !.cur = [NoRun EXCEPT !.call = call']]
    /\ pc' = IF config.sources = <<>> THEN "done" ELSE "fetching"
    /\ UNCHANGED <<envVars, stateDoc, now, radarVars>>

\* (variant: aggregate() starts from zeroed statistics)
AggregateFromZero ==
    /\ pc = "idle"
    /\ runs < MaxRuns
    /\ call' = "aggregate"
    /\ last_fetch' = Nothing
    /\ existing_urls' = {}
    /\ runs' = runs + 1
    /\ idx' = 1
    /\ all_articles' = <<>>
    /\ returned' = <<>>
    /\ last_outcome' = "none"
    /\ hist' = [hist EXCEPT !.cur = [NoRun EXCEPT !.call = call']]
    /\ pc' = IF config.sources = <<>> THEN "done" ELSE "fetching"
    /\ stats' = ZeroStats
    /\ UNCHANGED <<envVars, stateDoc, now, seen_urls, seen_titles, cutoff_time>>

\* aggregate() up to the loop over the sources.
Aggregate ==
    /\ pc = "idle"
    /\ runs < MaxRuns
    /\ call' = "aggregate"
    /\ last_fetch' = Nothing
    /\ existing_urls' = {}
    /\ StartRun

\* aggregate_incremental(storage_file) up to the loop over the sources.
AggregateIncremental ==
    /\ pc = "idle"
    /\ runs < MaxRuns
    /\ call' = "aggregate_incremental"
    /\ last_fetch' = IF config.hasState THEN GetLastFetchTime(stateDoc) ELSE Nothing
    /\ existing_urls' = IF config.hasState /\ config.sources # <<>>
                        THEN ExistingUrls(storage) ELSE {}
    /\ StartRun

RECURSIVE Concat(_)
Concat(lists) == IF lists = <<>> THEN <<>> ELSE Head(lists) \o Concat(Tail(lists))

\* "if last_fetch: articles = self._filter_by_time(articles, last_fetch)"
TimeSlice(articles, lf) == IF lf.has THEN FilterByTime(articles, lf.t) ELSE articles

\* (variant: the except clause does not count the failure)
SourceFailedUncounted == [articles |-> <<>>, processed |-> 0, failed |-> 0]

SourceFailed == [articles |-> <<>>, processed |-> 0, failed |-> 1]
SourceProcessed(articles) == [articles |-> articles, processed |-> 1, failed |-> 0]

\* (variant: a source of unknown type is counted as processed)
ProcessSourceResultUnknownProcessed(ty, served, outcome, feeds, outs, lf) ==
    CASE ty = "rss" ->
           IF outcome = "exception" THEN SourceFailed
           ELSE SourceProcessed(TimeSlice(RssFetchAndParse(served, outcome), lf))
      [] ty = "html" ->
           IF outcome = "exception" THEN SourceFailed
           ELSE SourceProcessed(TimeSlice(HtmlFetchAndParse(served, outcome), lf))
      [] ty = "opml" ->
           IF \E j \in DOMAIN outs : outs[j] = "exception" THEN SourceFailed
           ELSE SourceProcessed(TimeSlice(
                  Concat([j \in DOMAIN feeds |-> RssFetchAndParse(feeds[j], outs[j])]), lf))
      [] OTHER -> SourceProcessed(<<>>)

\* NewsRadar._process_source for a source of type ty: the articles it
\* returns and what it adds to sources_processed and sources_failed.
\* served is what the source's url serves and outcome what fetching it does;
\* for an OPML source, feeds are the feeds the document lists (none when
\* parse_opml fails) and outs what fetching each of them does.
ProcessSourceResult(ty, served, outcome, feeds, outs, lf) ==
    CASE ty = "rss" ->
           IF outcome = "exception" THEN SourceFailed
           ELSE SourceProcessed(TimeSlice(RssFetchAndParse(served, outcome), lf))
      [] ty = "html" ->
           IF outcome = "exception" THEN SourceFailed
           ELSE SourceProcessed(TimeSlice(HtmlFetchAndParse(served, outcome), lf))
      [] ty = "opml" ->
           IF \E j \in DOMAIN outs : outs[j] = "exception" THEN SourceFailed
           ELSE SourceProcessed(TimeSlice(
                  Concat([j \in DOMAIN feeds |-> RssFetchAndParse(feeds[j], outs[j])]), lf))
      [] OTHER -> SourceFailed

\* (variant: the URL check is skipped)
NotExistingUnchecked(articles, urls) == articles

\* "[a for a in articles if a.get("url") not in existing_urls]"
NotExisting(articles, urls) == SelectSeq(articles, LAMBDA a : a.url \notin urls)

\* One iteration of the loop over the sources, of aggregate() and of
\* aggregate_incremental(), given what _process_source returned; met says
\* what the call met and lost whether the source's content did not come
\* through (recorded where the content is fixed).
LoopBody(r, met, lost) ==
    LET new_articles == IF Incremental THEN NotExisting(r.articles, existing_urls)
                        ELSE r.articles
    IN /\ stats' = [stats EXCEPT
                       !.sources_processed = @ + r.processed,
                       !.sources_failed = @ + r.failed]
       /\ all_articles' = all_articles \o new_articles
       /\ stateDoc' = IF Incremental
                      THEN UpdateSourceStats(stateDoc, SourceName(idx),
                                             Len(new_articles), now)
                      ELSE stateDoc
       /\ idx' = idx + 1
       /\ pc' = IF idx = NumSources THEN "filtering" ELSE "fetching"
       /\ last_outcome' = met
       /\ hist' = [hist EXCEPT
                      !.cur.failed = IF lost THEN @ \cup {idx} ELSE @,
                      !.cur.calls = IF Incremental
                                    THEN Append(@, [source |-> SourceName(idx),
                                                    count |-> Len(new_articles)])
                                    ELSE @]
       /\ UNCHANGED <<envVars, now, seen_urls, seen_titles, cutoff_time, call,
                      last_fetch, existing_urls, returned, runs>>

AllOk(outs) == \A j \in DOMAIN outs : outs[j] = "ok"

OpmlMet(outs) == IF \E j \in DOMAIN outs : outs[j] = "exception" THEN "exception" ELSE "opml"

\* The loop iteration when the sources serve anything.
ProcessSource ==
    /\ pc = "fetching"
    /\ LET ty == config.sources[idx]
       IN \/ /\ ty \in {"rss", "html"}
             /\ \E served \in Feeds, outcome \in FetchOutcomes :
                  LoopBody(ProcessSourceResult(ty, served, outcome, <<>>, <<>>, last_fetch),
                           outcome, FALSE)
          \/ /\ ty = "opml"
             /\ \E k \in 0..MaxOpmlFeeds :
                  \E feeds \in [1..k -> Feeds], outs \in [1..k -> FetchOutcomes] :
                    LoopBody(ProcessSourceResult(ty, <<>>, "ok", feeds, outs, last_fetch),
                             OpmlMet(outs), FALSE)
          \/ /\ ty \notin {"rss", "html", "opml"}
             /\ LoopBody(ProcessSourceResult(ty, <<>>, "ok", <<>>, <<>>, last_fetch),
                         "unknown_type", FALSE)

\* The feeds an OPML document lists when the feeds are the configured ones.
OpmlFeeds == [j \in 1..Min(MaxOpmlFeeds, NumSources) |-> upstream[j]]

\* The loop iteration when each source serves the same content at every fetch.
ProcessSourceSteady ==
    /\ pc = "fetching"
    /\ LET ty == config.sources[idx]
       IN \/ /\ ty \in {"rss", "html"}
             /\ \E outcome \in FetchOutcomes :
                  LoopBody(ProcessSourceResult(ty, upstream[idx], outcome, <<>>, <<>>,
                                               last_fetch),
                           outcome, outcome # "ok")
          \/ /\ ty = "opml"
             /\ \E outs \in [DOMAIN OpmlFeeds -> FetchOutcomes] :
                  LoopBody(ProcessSourceResult(ty, <<>>, "ok", OpmlFeeds, outs, last_fetch),
                           OpmlMet(outs), ~AllOk(outs))
          \/ /\ ty \notin {"rss", "html", "opml"}
             /\ LoopBody(ProcessSourceResult(ty, <<>>, "ok", <<>>, <<>>, last_fetch),
                         "unknown_type", TRUE)

\* (variant: total_filtered receives the number kept)
StatsAfterFiltersSwapped(st, fetched, kept, incremental) ==
    [st EXCEPT
        !.total_fetched = fetched,
        !.new_articles = IF incremental THEN fetched ELSE @,
        !.total_filtered = kept,
        !.total_kept = kept]

\* The statistics aggregate() / aggregate_incremental() and _apply_filters
\* write after the loop.
StatsAfterFilters(st, fetched, kept, incremental) ==
    [st EXCEPT
        !.total_fetched = fetched,
        !.new_articles = IF incremental THEN fetched ELSE @,
        !.total_filtered = fetched - kept,
        !.total_kept = kept]

\* After the loop: total_fetched, new_articles, _apply_filters, total_kept.
ApplyFilters ==
    /\ pc = "filtering"
    /\ LET r == ApplyFiltersResult(all_articles, cutoff_time,
                                   config.enable_deduplication, seen_urls, seen_titles)
       IN /\ stats' = StatsAfterFilters(stats, Len(all_articles), Len(r.kept), Incremental)
          /\ seen_urls' = r.urls
          /\ seen_titles' = r.titles
          /\ returned' = r.kept
    /\ pc' = IF Incremental THEN "stamping" ELSE "done"
    /\ last_outcome' = "none"
    /\ UNCHANGED <<envVars, stateDoc, now, cutoff_time, call, idx, all_articles,
                   last_fetch, existing_urls, runs, hist>>

\* "self.state.set_last_fetch_time(datetime.now(timezone.utc))" and return.
StampLastFetch ==
    /\ pc = "stamping"
    /\ stateDoc' = SetLastFetchTime(stateDoc, now)
    /\ pc' = "done"
    /\ UNCHANGED <<envVars, now, radarVars, localVars, runs, last_outcome, hist>>

\* The caller takes the returned list; the locals of the call are gone.
Return ==
    /\ pc = "done"
    /\ pc' = "idle"
    /\ idx' = 1
    /\ all_articles' = <<>>
    /\ last_fetch' = Nothing
    /\ existing_urls' = {}
    /\ returned' = <<>>
    /\ hist' = [prev |-> [hist.cur EXCEPT !.calls = <<>>], cur |-> NoRun,
                past |-> IF config.enable_deduplication
                         THEN hist.past \cup Range(returned) ELSE hist.past,
                done |-> hist.done + 1]
    /\ UNCHANGED <<envVars, stateDoc, now, radarVars, call, runs, last_outcome>>

Next ==
    \/ NewRadar
    \/ Tick
    \/ Aggregate
    \/ AggregateIncremental
    \/ ProcessSource
    \/ ApplyFilters
    \/ StampLastFetch
    \/ Return

Spec == Init /\ [][Next]_vars

\* Successive incremental runs of a radar with a state store, over sources
\* whose content does not change.
InitSteady ==
    /\ config \in { c \in Configs : c.hasState }
    /\ upstream \in [1..Len(config.sources) -> Feeds]
    /\ InitRadar

NextSteady ==
    \/ NewRadar
    \/ Tick
    \/ AggregateIncremental
    \/ ProcessSourceSteady
    \/ ApplyFilters
    \/ StampLastFetch
    \/ Return

SpecSteady == InitSteady /\ [][NextSteady]_vars

\* Successive calls, of either entry point, on one NewsRadar over sources
\* whose content does not change.
InitRepeat ==
    /\ config \in Configs
    /\ upstream \in [1..Len(config.sources) -> Feeds]
    /\ InitRadar

NextRepeat ==
    \/ Aggregate
    \/ AggregateIncremental
    \/ ProcessSourceSteady
    \/ ApplyFilters
    \/ StampLastFetch
    \/ Return

SpecRepeat == InitRepeat /\ [][NextRepeat]_vars

TypeOK ==
    /\ pc \in {"idle", "fetching", "filtering", "stamping", "done"}
    /\ idx \in 1..(MaxSources + 1)
    /\ now \in 0..MaxTime

\* =================================================== the state store alone
\* The orchestrator at rest, while a component is exercised on its own.
radarAtRest == <<config, upstream, now, radarVars, pc, localVars, runs,
                 last_outcome, hist, dup, applied, cache, procs>>
quietVars == <<radarAtRest, storage, storeVars>>

RadarQuiet ==
    /\ applied = NoApplied
    /\ cache = NoCache
    /\ procs = NoProcs
    /\ config = [sources |-> <<>>, hasState |-> TRUE, enable_deduplication |-> TRUE]
    /\ upstream = <<>>
    /\ now = 0
    /\ stats = ZeroStats
    /\ seen_urls = {}
    /\ seen_titles = {}
    /\ cutoff_time = now - Hours
    /\ pc = "idle"
    /\ call = "none"
    /\ idx = 1
    /\ all_articles = <<>>
    /\ last_fetch = Nothing
    /\ existing_urls = {}
    /\ returned = <<>>
    /\ runs = 0
    /\ last_outcome = "none"
    /\ hist = NoHist

\* What can be wrong with the file: text that is not JSON (also what a write
\* that failed half-way leaves), bytes that are not UTF-8, or JSON that is
\* not an object.
StateDamages == {"malformed", "undecodable", "not_object"}

\* State.load: {} for an absent file and when json.load raises
\* JSONDecodeError or IOError; UnicodeDecodeError is neither and escapes; a
\* JSON value that is not an object is returned as it is.
StateLoad(file, doc) ==
    CASE file = "sound" -> [raised |-> FALSE, isDoc |-> TRUE, doc |-> doc]
      [] file = "malformed" -> [raised |-> FALSE, isDoc |-> TRUE, doc |-> EmptyStateDoc]
      [] file = "undecodable" -> [raised |-> TRUE, isDoc |-> FALSE, doc |-> EmptyStateDoc]
      [] OTHER -> [raised |-> FALSE, isDoc |-> FALSE, doc |-> EmptyStateDoc]

\* State.get_last_fetch_time on the file: state.get raises on a value that
\* is not an object.
StateGet(file, doc) ==
    LET l == StateLoad(file, doc)
    IN IF l.raised \/ ~l.isDoc THEN [raised |-> TRUE, value |-> Nothing]
       ELSE [raised |-> FALSE, value |-> GetLastFetchTime(l.doc)]

\* State.save: open(..., "w") truncates the file, json.dump writes it; an
\* IOError is logged and raised again.  The open can fail (file untouched)
\* or the write (file left truncated).
SaveOutcomes == {"saved", "open_failed", "write_failed"}

StateSave(file, doc, new, how) ==
    CASE how = "saved" -> [file |-> "sound", doc |-> new, raised |-> FALSE]
      [] how = "open_failed" -> [file |-> file, doc |-> doc, raised |-> TRUE]
      [] OTHER -> [file |-> "malformed", doc |-> EmptyStateDoc, raised |-> TRUE]

CountersOf(file, doc) ==
    [s \in StateSources |->
        IF file = "sound"
        THEN [total_articles |-> StatsOf(doc, s).total_articles,
              fetch_count |-> StatsOf(doc, s).fetch_count]
        ELSE ZeroCounters[s]]

Max(a, b) == IF a > b THEN a ELSE b

\* The bookkeeping after an operation: the counts passed by the calls that
\* returned, the highest counters any readable document showed, and whether
\* the file was ever damaged or half-written since it was last absent.
GhostAfter(g, op, source, count, raised, file, doc, harmed) ==
    LET seen == CountersOf(file, doc)
    IN [sums |-> [s \in StateSources |->
                    IF op = "update" /\ ~raised /\ s = source
                    THEN [total_articles |-> g.sums[s].total_articles + count,
                          fetch_count |-> g.sums[s].fetch_count + 1]
                    ELSE g.sums[s]],
        high |-> [s \in StateSources |->
                    [total_articles |-> Max(g.high[s].total_articles, seen[s].total_articles),
                     fetch_count |-> Max(g.high[s].fetch_count, seen[s].fetch_count)]],
        clean |-> g.clean /\ ~harmed,
        ops |-> g.ops + 1]

\* A writing operation of State: load, change the document, save.
StateWrite(op, source, count, how) ==
    LET l == StateLoad(state_file, stateDoc)
    IN IF l.raised \/ ~l.isDoc
       THEN /\ state_op' = [op |-> op, source |-> source, count |-> count, raised |-> TRUE,
                            value |-> Nothing, before |-> l.doc, isDoc |-> l.isDoc]
            /\ state_ghost' = [state_ghost EXCEPT !.ops = @ + 1]
            /\ UNCHANGED <<state_file, stateDoc>>
       ELSE LET new == IF op = "set" THEN SetLastFetchTime(l.doc, now)
                       ELSE UpdateSourceStats(l.doc, source, count, now)
                r == StateSave(state_file, stateDoc, new, how)
            IN /\ state_file' = r.file
               /\ stateDoc' = r.doc
               /\ state_op' = [op |-> op, source |-> source, count |-> count,
                               raised |-> r.raised, value |-> Just(now), before |-> l.doc,
                               isDoc |-> TRUE]
               /\ state_ghost' = GhostAfter(state_ghost, op, source, count, r.raised,
                                            r.file, r.doc, how = "write_failed")

\* state.set_last_fetch_time(now)
StateSetLastFetchTime ==
    /\ state_ghost.ops < MaxStateOps
    /\ \E how \in SaveOutcomes : StateWrite("set", 0, 0, how)
    /\ UNCHANGED quietVars

\* state.update_source_stats(source, count)
StateUpdateSourceStats ==
    /\ state_ghost.ops < MaxStateOps
    /\ \E source \in StateSources, count \in 0..MaxCount, how \in SaveOutcomes :
         StateWrite("update", source, count, how)
    /\ UNCHANGED quietVars

\* state.load()
StateLoadCall ==
    /\ LET l == StateLoad(state_file, stateDoc)
       IN state_op' = [op |-> "load", source |-> 0, count |-> 0, raised |-> l.raised,
                       value |-> Nothing, before |-> l.doc, isDoc |-> l.isDoc]
    /\ UNCHANGED <<quietVars, stateDoc, state_file, state_ghost>>

\* state.get_last_fetch_time(), called directly or as the first thing an
\* incremental run does (op "run": the exception, if any, ends the run).
StateGetLastFetchTime ==
    /\ \E op \in {"get", "run"} :
         LET r == StateGet(state_file, stateDoc)
         IN state_op' = [op |-> op, source |-> 0, count |-> 0, raised |-> r.raised,
                         value |-> r.value, before |-> StateLoad(state_file, stateDoc).doc,
                         isDoc |-> StateLoad(state_file, stateDoc).isDoc]
    /\ UNCHANGED <<quietVars, stateDoc, state_file, state_ghost>>

\* state.clear(): the file is removed.
StateClear ==
    /\ state_ghost.ops < MaxStateOps
    /\ state_file' = "sound"
    /\ stateDoc' = EmptyStateDoc
    /\ state_op' = [NoStateOp EXCEPT !.op = "clear"]
    /\ state_ghost' = [sums |-> ZeroCounters, high |-> ZeroCounters, clean |-> TRUE,
                       ops |-> state_ghost.ops + 1]
    /\ UNCHANGED quietVars

\* The file is damaged from outside the program.
StateDamage ==
    /\ state_ghost.ops < MaxStateOps
    /\ \E d \in StateDamages : state_file' = d
    /\ stateDoc' = EmptyStateDoc
    /\ state_op' = [NoStateOp EXCEPT !.op = "damage"]
    /\ state_ghost' = [state_ghost EXCEPT !.clean = FALSE, !.ops = @ + 1]
    /\ UNCHANGED quietVars

InitState ==
    /\ RadarQuiet
    /\ storage = <<>>
    /\ stateDoc = EmptyStateDoc
    /\ StateIdle
    /\ StoreIdle
    /\ DupIdle

NextState ==
    \/ Tick
    \/ StateSetLastFetchTime
    \/ StateUpdateSourceStats
    \/ StateLoadCall
    \/ StateGetLastFetchTime
    \/ StateClear
    \/ StateDamage

SpecState == InitState /\ [][NextState]_vars

\* ================================================= the article store alone
\* Values a "date" key can hold besides a datetime: the ISO-8601 string of
\* an aware or a naive datetime, and the string "None".
IsoOf(d) == [kind |-> IF d.kind = "aware" THEN "iso_aware" ELSE "iso_naive", t |-> d.t]
TextNone == [kind |-> "text_none", t |-> 0]

\* JSONStorage._serialize_articles on one value: a datetime becomes its
\* isoformat(), a str stays, anything else that is not a list, int, float
\* or bool (None included) becomes str(value).
SerializeValue(d) ==
    CASE d.kind \in {"aware", "naive"} -> IsoOf(d)
      [] d.kind = "none" -> TextNone
      [] OTHER -> d

\* _serialize_articles on one article; ai_score stands for the key
\* "_ai_score", skipped like every key that starts with "_" (-1: no such key).
Serialize(a) == [a EXCEPT !.ai_score = -1, !.date = SerializeValue(@)]

SerializeArticles(articles) == [i \in 1..Len(articles) |-> Serialize(articles[i])]

\* The articles handed to the store: parsed, some of them scored by the
\* topic filter.
StoreArticles ==
    { Scored(HtmlArticle(e)) : e \in { x \in EntryPool : x.url = "u1" /\ x.hasDate } }
      \cup { RssArticle(e) : e \in { x \in EntryPool : x.url = "u2" \/ ~x.hasDate } }

Batches == SeqsUpTo(StoreArticles, MaxBatch)

\* JSONStorage.load: [] for an absent file and when json.load raises
\* JSONDecodeError or IOError; UnicodeDecodeError escapes, and so does the
\* AttributeError of data.get on JSON that is not an object.
StoreLoad(file, articles) ==
    CASE file = "absent" -> [raised |-> FALSE, failed |-> FALSE, articles |-> <<>>]
      [] file = "sound" -> [raised |-> FALSE, failed |-> FALSE, articles |-> articles]
      [] file = "malformed" -> [raised |-> FALSE, failed |-> TRUE, articles |-> <<>>]
      [] OTHER -> [raised |-> TRUE, failed |-> TRUE, articles |-> <<>>]

\* (variant: the test for an existing file is inverted)
BackupWantedFreshOnly(backup, overwrite, file) == backup /\ file = "absent" /\ overwrite

\* "if backup and self.file_path.exists() and overwrite"
BackupWanted(backup, overwrite, file) == backup /\ file # "absent" /\ overwrite

\* shutil.copy2 to _get_backup_path(): the copy is named after the clock, to
\* the second, and replaces a copy of the same second.
WithBackup(copies, ts, file, articles) ==
    [k \in DOMAIN copies \cup {ts} |->
        IF k = ts THEN [file |-> file, articles |-> articles] ELSE copies[k]]

\* append: "[a for a in articles if a.get("url") not in existing_urls]"
AppendNew(existing, articles, deduplicate) ==
    IF deduplicate THEN NotExisting(articles, ExistingUrls(existing)) ELSE articles

\* The first half of JSONStorage.save: the backup copy.
StoreSaveBegin(op, batch, articles, backup, overwrite, deduplicate, loaded) ==
    /\ backups' = IF BackupWanted(backup, overwrite, store_file)
                  THEN WithBackup(backups, now, store_file, storage)
                  ELSE backups
    /\ store_pc' = "writing"
    /\ store_op' = [op |-> op, batch |-> batch, articles |-> articles, backup |-> backup,
                    overwrite |-> overwrite, deduplicate |-> deduplicate,
                    prior |-> storage, priorFile |-> store_file,
                    failed |-> loaded.failed, raised |-> FALSE, result |-> <<>>,
                    ops |-> store_op.ops + 1]
    /\ UNCHANGED <<store_file, storage>>

\* storage.save(articles, backup, overwrite), up to the write
StoreSave ==
    /\ store_pc = "idle"
    /\ store_op.ops < MaxStoreOps
    /\ \E articles \in Batches, backup \in BOOLEAN, overwrite \in BOOLEAN :
         StoreSaveBegin("save", articles, articles, backup, overwrite, FALSE,
                        [failed |-> FALSE])
    /\ UNCHANGED <<radarAtRest, stateDoc, stateVars>>

\* storage.append(articles, deduplicate): load, drop the stored URLs,
\* save(existing + new) up to the write
StoreAppend ==
    /\ store_pc = "idle"
    /\ store_op.ops < MaxStoreOps
    /\ \E articles \in Batches, deduplicate \in BOOLEAN :
         LET l == StoreLoad(store_file, storage)
         IN IF l.raised
            THEN /\ store_op' = [NoStoreOp EXCEPT
                                   !.op = "append", !.batch = articles,
                                   !.deduplicate = deduplicate, !.prior = storage,
                                   !.priorFile = store_file, !.failed = TRUE,
                                   !.raised = TRUE, !.ops = store_op.ops + 1]
                 /\ UNCHANGED <<store_file, storage, backups, store_pc>>
            ELSE StoreSaveBegin("append", articles,
                                l.articles \o AppendNew(l.articles, articles, deduplicate),
                                TRUE, TRUE, deduplicate, l)
    /\ UNCHANGED <<radarAtRest, stateDoc, stateVars>>

\* The second half of save: open(..., "w") and json.dump of the serialized
\* articles; IOError is logged and raised again.
StoreWrite ==
    /\ store_pc = "writing"
    /\ \E how \in SaveOutcomes :
         /\ store_file' = CASE how = "saved" -> "sound"
                            [] how = "open_failed" -> store_file
                            [] OTHER -> "malformed"
         /\ storage' = CASE how = "saved" -> SerializeArticles(store_op.articles)
                         [] how = "open_failed" -> storage
                         [] OTHER -> <<>>
         /\ store_op' = [store_op EXCEPT !.raised = how # "saved",
                                         !.failed = @ \/ how # "saved"]
    /\ store_pc' = "idle"
    /\ UNCHANGED <<radarAtRest, stateDoc, stateVars, backups>>

\* storage.load()
StoreLoadCall ==
    /\ store_pc = "idle"
    /\ LET l == StoreLoad(store_file, storage)
       IN store_op' = [NoStoreOp EXCEPT
                         !.op = "load", !.prior = storage, !.priorFile = store_file,
                         !.failed = l.failed, !.raised = l.raised,
                         !.result = l.articles, !.ops = store_op.ops]
    /\ UNCHANGED <<radarAtRest, stateDoc, stateVars, storage, store_file, backups, store_pc>>

\* The storage file is damaged from outside the program.
StoreDamage ==
    /\ store_pc = "idle"
    /\ store_op.ops < MaxStoreOps
    /\ \E d \in StateDamages : store_file' = d
    /\ storage' = <<>>
    /\ store_op' = [NoStoreOp EXCEPT !.op = "damage", !.ops = store_op.ops + 1]
    /\ UNCHANGED <<radarAtRest, stateDoc, stateVars, backups, store_pc>>

InitStore ==
    /\ RadarQuiet
    /\ storage = <<>>
    /\ stateDoc = EmptyStateDoc
    /\ StateIdle
    /\ StoreIdle
    /\ DupIdle

NextStore ==
    \/ Tick
    \/ StoreSave
    \/ StoreAppend
    \/ StoreWrite
    \/ StoreLoadCall
    \/ StoreDamage

SpecStore == InitStore /\ [][NextStore]_vars

\* ============================================== the duplicate filter alone
\* A DuplicateFilter object used on its own: seen_urls and seen_titles are
\* its sets, dup holds its switches, its seen hashes and, since construction
\* or the last reset(), every article presented to filter() and every article
\* returned; it also remembers the first call made on the object (what it
\* was given and what it returned) and counts the calls and the resets.
dupRest == <<config, upstream, storage, stateDoc, now, stats, cutoff_time, pc,
             localVars, runs, last_outcome, hist, stateVars, storeVars, applied, cache,
             procs>>

\* The articles handed to filter(): the parsed entries, one whose URL is
\* empty (article.get("url", "") of an entry without link) and one whose
\* title is empty.
DupArticles ==
    { RssArticle(e) : e \in EntryPool }
      \cup { [url |-> "", title |-> TitleXY, date |-> NoDate, tiers |-> {}, ai_score |-> -1],
             [url |-> "u3", title |-> <<>>, date |-> NoDate, tiers |-> {}, ai_score |-> -1] }

DupBatches == SeqsUpTo(DupArticles, MaxBatch)

\* filter(articles) on the object, for a list out of the given ones.
FilterCall(batches) ==
    \E articles \in batches :
         LET r == DupLoopBy(articles, dup.by_url, dup.by_title, dup.by_content,
                            dup.threshold, <<>>, seen_urls, seen_titles, dup.seen_hashes)
         IN /\ seen_urls' = r.urls
            /\ seen_titles' = r.titles
            /\ dup' = [dup EXCEPT !.seen_hashes = r.hashes,
                                  !.presented = @ \o articles,
                                  !.kept = @ \o r.kept,
                                  !.calls = @ + 1,
                                  !.first = IF dup.calls = 0
                                            THEN [articles |-> articles, kept |-> r.kept]
                                            ELSE @]

DupFilterCall ==
    /\ dup.calls < MaxDupCalls
    /\ FilterCall(DupBatches)
    /\ UNCHANGED dupRest

\* (variant: reset() forgets the URLs and the titles but not the hashes)
DupResetKeepsHashes ==
    /\ dup.calls > 0
    /\ dup.presented # <<>>
    /\ seen_urls' = {}
    /\ seen_titles' = {}
    /\ dup' = [dup EXCEPT !.presented = <<>>, !.kept = <<>>, !.resets = 1]
    /\ UNCHANGED dupRest

\* reset(): the three seen sets are cleared, the switches stay.
DupReset ==
    /\ dup.calls > 0
    /\ dup.presented # <<>>
    /\ seen_urls' = {}
    /\ seen_titles' = {}
    /\ dup' = [dup EXCEPT !.seen_hashes = {}, !.presented = <<>>, !.kept = <<>>,
                          !.resets = 1]
    /\ UNCHANGED dupRest

InitDup ==
    /\ RadarQuiet
    /\ storage = <<>>
    /\ stateDoc = EmptyStateDoc
    /\ StateIdle
    /\ StoreIdle
    /\ \E u, t, c \in BOOLEAN :
         dup = [NoDup EXCEPT !.by_url = u, !.by_title = t, !.by_content = c]

NextDup ==
    \/ DupFilterCall
    \/ DupReset

SpecDup == InitDup /\ [][NextDup]_vars

\* ------------------------------------------- the title check on its own
\* A DuplicateFilter(by_url=False, by_title=True) with one of a few
\* thresholds, given titles of several lengths: "AI News Today" and
\* "AI News" (ratio 0.7), "a" and "abc" (ratio 0.5, a threshold itself),
\* "Abc" and "abc" (equal once lowercased), and the empty title.
Thresholds == {50, 85, 90}

TitleArticles ==
    { [url |-> "u1", title |-> t, date |-> NoDate, tiers |-> {}, ai_score |-> -1] :
        t \in {TitleAiNewsToday, TitleAiNews, TitleA, TitleLowerAbc, TitleUpperAbc, <<>>} }

TitleBatches == SeqsUpTo(TitleArticles, MaxBatch)

TitleFilterCall ==
    /\ dup.calls < MaxTitleCalls
    /\ FilterCall(TitleBatches)
    /\ UNCHANGED dupRest

InitTitle ==
    /\ RadarQuiet
    /\ storage = <<>>
    /\ stateDoc = EmptyStateDoc
    /\ StateIdle
    /\ StoreIdle
    /\ \E th \in Thresholds :
         dup = [NoDup EXCEPT !.by_url = FALSE, !.threshold = th]

NextTitle ==
    \/ TitleFilterCall
    \/ DupReset

SpecTitle == InitTitle /\ [][NextTitle]_vars

\* ===================================== component functions on their own
\* Everything but the record of the latest call.
allButApplied == <<config, upstream, storage, stateDoc, now, radarVars, pc, localVars,
                   runs, last_outcome, hist, stateVars, storeVars, dup, cache, procs>>

\* Every component at rest, nothing called yet.
InitApplied ==
    /\ RadarQuiet
    /\ storage = <<>>
    /\ stateDoc = EmptyStateDoc
    /\ StateIdle
    /\ StoreIdle
    /\ DupIdle

\* ------------------------------------------------------ merge_duplicates
\* A URL for merge_duplicates: its text without the tracking parameters,
\* whether that text has upper-case letters, and the tracking parameters it
\* carries.
TrackingParams == {"utm_source", "ref"}

MergeUrls ==
    [base : {"p1", "p2"}, upper : BOOLEAN, tracking : SUBSET TrackingParams]

MergeArticles == { [url |-> u, title |-> TitleAbc] : u \in MergeUrls }

MergeBatches == SeqsUpTo(MergeArticles, MaxBatch)

\* DuplicateFilter._normalize_url: url.lower(), then re.sub(...) for each
\* tracking parameter.  The module never imports re (its imports are
\* logging, hashlib, typing and difflib), so the first re.sub raises
\* NameError, whatever the URL.
NormalizeUrl(url) == [raised |-> TRUE, url |-> url]

\* DuplicateFilter.merge_duplicates: the grouping loop calls _normalize_url
\* for the first article and the NameError propagates; only an empty list
\* gets through (no group, empty result).
MergeDuplicates(articles, prefer) ==
    IF articles = <<>> THEN [raised |-> FALSE, merged |-> <<>>]
    ELSE IF NormalizeUrl(Head(articles).url).raised
         THEN [raised |-> TRUE, merged |-> <<>>]
         ELSE [raised |-> FALSE, merged |-> articles]

MergeDuplicatesCall ==
    /\ \E articles \in MergeBatches, prefer \in {"newest", "oldest", "first"} :
         applied' = [fn |-> "merge_duplicates", articles |-> articles, prefer |-> prefer,
                     result |-> MergeDuplicates(articles, prefer)]
    /\ UNCHANGED allButApplied

NextMerge == MergeDuplicatesCall

SpecMerge == InitApplied /\ [][NextMerge]_vars

\* ------------------------------------------------- the time filter alone
\* A TimeFilter(hours=24) on its own, the clock in minutes.  The cut-off is
\* computed once, in __init__ (and again only by update_window); filter()
\* compares with that stored value.
WindowMinutes == 1440

\* When the filter is built, and how long after that filter() is called.
BuildTimes == {0, 30}
CallDelays == {0, 1, 90}

\* Dates as far before the call as the cases need: 23h59m, exactly 24h, 25h.
AgesMinutes == {1439, 1440, 1500}

TimedArticles(called) ==
    { [url |-> "u1", title |-> TitleAbc, date |-> d, tiers |-> {}, ai_score |-> -1] :
        d \in { Aware(called - age) : age \in AgesMinutes }
                \cup { Naive(called - age) : age \in AgesMinutes }
                \cup { NoDate } }

\* TimeFilter.__init__
TimeFilterNew ==
    /\ applied.fn = "none"
    /\ \E built \in BuildTimes :
         applied' = [fn |-> "TimeFilter", built |-> built,
                     cutoff_time |-> built - WindowMinutes,
                     called |-> Nothing, articles |-> <<>>, result |-> <<>>]
    /\ UNCHANGED allButApplied

\* TimeFilter.filter, some time after the filter was built.
TimeFilterCall ==
    /\ applied.fn = "TimeFilter"
    /\ \E delay \in CallDelays :
         LET called == applied.built + delay
         IN \E articles \in SeqsUpTo(TimedArticles(called), MaxBatch) :
               applied' = [applied EXCEPT !.called = Just(called),
                                          !.articles = articles,
                                          !.result = TimeFilter(articles, applied.cutoff_time)]
    /\ UNCHANGED allButApplied

NextTime ==
    \/ TimeFilterNew
    \/ TimeFilterCall

SpecTime == InitApplied /\ [][NextTime]_vars

\* ------------------------------------------------ the topic score alone
\* What the text of an article holds: for each tier, how many of its
\* keywords match (an empty text matches none).
KeywordTiers == {"primary", "secondary", "alias"}

MatchCounts == [KeywordTiers -> 0..MaxMatches]

\* The tiers with at least one pattern for which pattern.search succeeds.
TiersMatched(m) == { tier \in KeywordTiers : m[tier] > 0 }

\* AITopicFilter.score on an article with the given matches.
ScoreCall ==
    /\ \E m \in MatchCounts :
         applied' = [fn |-> "score", matches |-> m,
                     result |-> Score([tiers |-> TiersMatched(m)])]
    /\ UNCHANGED allButApplied

NextScore == ScoreCall

SpecScore == InitApplied /\ [][NextScore]_vars

\* --------------------------------------------------- normalize on its own
\* What a raw article can hold under a text key: no such key, None, the
\* empty string, blanks only, a text, or a text with blanks around it.
TextValues == {"absent", "none", "empty", "blank", "plain", "padded"}

\* What it can hold under "language": no such key, None, "" or a language.
LanguageValues == {"absent", "none", "empty", "fr"}

RawArticles ==
    [title : TextValues, url : TextValues, description : TextValues,
     language : LanguageValues]

\* article.get(key, "").strip(): the default for a missing key only; None
\* has no strip().
StripRaises(v) == v = "none"
Strip(v) == IF v \in {"plain", "padded"} THEN "plain" ELSE "empty"

\* article.get("language", "en"), then overwritten by article["language"]
\* when that is truthy: "en" only when the key is missing.
NormLanguage(v) == IF v = "absent" THEN "en" ELSE v

\* BaseParser.normalize on a list of one article.
Normalize(a) ==
    IF StripRaises(a.title) \/ StripRaises(a.url) \/ StripRaises(a.description)
    THEN [raised |-> TRUE, records |-> <<>>]
    ELSE LET norm == [title |-> Strip(a.title), url |-> Strip(a.url),
                      description |-> Strip(a.description),
                      language |-> NormLanguage(a.language)]
         IN [raised |-> FALSE,
             records |-> IF norm.title # "empty" /\ norm.url # "empty"
                         THEN <<norm>> ELSE <<>>]

NormalizeCall ==
    /\ \E a \in RawArticles :
         applied' = [fn |-> "normalize", article |-> a, result |-> Normalize(a)]
    /\ UNCHANGED allButApplied

NextNormalize == NormalizeCall

SpecNormalize == InitApplied /\ [][NextNormalize]_vars

\* ----------------------------------------- filter by content hash alone
\* The texts of a title, a description or a source name.
HashTexts == { <<>>, <<1>>, <<2>>, <<1, Pipe, 2>> }

HashArticles ==
    { [url |-> "", title |-> t, description |-> d, source |-> n] :
        t \in HashTexts, d \in HashTexts, n \in HashTexts }

\* DuplicateFilter(by_url=False, by_title=False, by_content=True).filter(articles)
\* on a new filter.
ContentFilter(articles) ==
    DupLoopBy(articles, FALSE, FALSE, TRUE, SimilarityThreshold, <<>>, {}, {}, {}).kept

ContentFilterCall ==
    /\ applied = NoApplied
    /\ \E articles \in SeqsUpTo(HashArticles, MaxHashBatch) :
         applied' = [fn |-> "content_filter", articles |-> articles,
                     kept |-> ContentFilter(articles)]
    /\ UNCHANGED allButApplied

NextHash == ContentFilterCall

SpecHash == InitApplied /\ [][NextHash]_vars

\* ------------------------------------------------- parse with a cap alone
\* A feed or page for parse(): for each entry in document order, whether it
\* is valid (its parsing gives an article that normalize keeps).
CappedFeeds == SeqsUpTo(BOOLEAN, MaxEntries)

Caps == 0..MaxCap

\* The positions of the valid entries among the given positions, in order.
ValidAmong(feed, positions) ==
    SelectSeq([i \in 1..Len(positions) |-> positions[i]], LAMBDA i : feed[i])

\* RSSParser.parse: "feed.entries[:max_entries] if max_entries else
\* feed.entries"; HTMLParser.parse: "if max_articles: article_elements =
\* article_elements[:max_articles]".  A cap of 0 is falsy: nothing is cut.
\* The result lists the positions of the entries that became articles.
ParseCapped(feed, cap) ==
    LET taken == IF cap # 0 THEN 1..Min(cap, Len(feed)) ELSE 1..Len(feed)
    IN ValidAmong(feed, [i \in taken |-> i])

ParseCappedCall ==
    /\ \E parser \in {"rss", "html"}, feed \in CappedFeeds, cap \in Caps :
         applied' = [fn |-> "parse", parser |-> parser, feed |-> feed, cap |-> cap,
                     result |-> ParseCapped(feed, cap)]
    /\ UNCHANGED allButApplied

NextParse == ParseCappedCall

SpecParse == InitApplied /\ [][NextParse]_vars

\* ================================================== the cache on its own
cacheRest == <<config, upstream, storage, stateDoc, radarVars, pc, localVars, runs,
               last_outcome, hist, stateVars, storeVars, dup, applied, procs>>

\* CacheManager(cache_dir, ttl_hours=1): the default time-to-live, in clock
\* units (hours).
TtlDefault == 1

\* The ttl_hours argument of get and get_or_fetch: None or a number.
TtlOverrides == {Nothing, Just(0), Just(2)}

\* "ttl_hours if ttl_hours is not None else self.ttl_hours"
TtlInForce(override) == IF override.has THEN override.t ELSE TtlDefault

\* CacheManager._is_expired: no file, or mtime < now - ttl.
IsExpired(file, ttl, t) == ~file.exists \/ file.mtime < t - ttl

\* CacheManager.get: None for an expired entry and for one json.load cannot
\* read (the error is logged), else the value read.
CacheRead(file, override, t) ==
    IF IsExpired(file, TtlInForce(override), t) THEN "none"
    ELSE IF file.content = "corrupt" THEN "none"
    ELSE file.content

\* What can be handed to set(): a cacheable value or one json.dump cannot
\* serialize (a datetime, a set).
SetValues == CacheValues \cup {"unserializable"}

\* CacheManager.set: open(path, "w") truncates the file, json.dump writes
\* it; TypeError and IOError are logged, not raised.  A failure at open
\* leaves the file as it was, a failure of the dump leaves it truncated.
CacheWrite(file, value, how, t) ==
    IF how = "open_failed" THEN file
    ELSE IF how = "write_failed" \/ value = "unserializable"
         THEN [exists |-> TRUE, mtime |-> t, content |-> "corrupt"]
         ELSE [exists |-> TRUE, mtime |-> t, content |-> value]

\* The record of an operation replaces the latest one, which becomes the
\* previous one.
CacheAfter(files, latest, op) ==
    [files |-> files, latest |-> latest, op |-> op, prev |-> cache.op,
     ops |-> cache.ops + 1]

CacheSet ==
    /\ cache.ops < MaxCacheOps
    /\ \E k \in CacheKeys, v \in SetValues, how \in SaveOutcomes :
         cache' = CacheAfter(
                    [cache.files EXCEPT ![k] = CacheWrite(@, v, how, now)],
                    [cache.latest EXCEPT ![k] = [has |-> TRUE, value |-> v, at |-> now]],
                    [NoCacheOp EXCEPT !.op = "set", !.key = k, !.at = now, !.value = v,
                                      !.before = cache.files[k]])
    /\ UNCHANGED <<cacheRest, now>>

CacheGet ==
    /\ cache.ops < MaxCacheOps
    /\ \E k \in CacheKeys, ttl \in TtlOverrides :
         cache' = CacheAfter(cache.files, cache.latest,
                    [NoCacheOp EXCEPT !.op = "get", !.key = k, !.at = now, !.ttl = ttl,
                                      !.before = cache.files[k],
                                      !.result = CacheRead(cache.files[k], ttl, now)])
    /\ UNCHANGED <<cacheRest, now>>

\* CacheManager.get_or_fetch: "cached = self.get(...); if cached is not None:
\* return cached", else fetch_func() is called, its value set and returned.
CacheGetOrFetch ==
    /\ cache.ops < MaxCacheOps
    /\ \E k \in CacheKeys, ttl \in TtlOverrides, fetched \in CacheValues,
          how \in SaveOutcomes :
         LET cached == CacheRead(cache.files[k], ttl, now)
             op == [NoCacheOp EXCEPT !.op = "get_or_fetch", !.key = k, !.at = now,
                                     !.ttl = ttl, !.value = fetched,
                                     !.before = cache.files[k]]
         IN IF cached # "none"
            THEN cache' = CacheAfter(cache.files, cache.latest,
                                     [op EXCEPT !.called = FALSE, !.result = cached])
            ELSE cache' = CacheAfter(
                            [cache.files EXCEPT ![k] = CacheWrite(@, fetched, how, now)],
                            [cache.latest EXCEPT
                                ![k] = [has |-> TRUE, value |-> fetched, at |-> now]],
                            [op EXCEPT !.called = TRUE, !.result = fetched])
    /\ UNCHANGED <<cacheRest, now>>

\* CacheManager.clear(key): the file of the key is removed; clear(): all are.
CacheClear ==
    /\ cache.ops < MaxCacheOps
    /\ \E keys \in { {k} : k \in CacheKeys } \cup { CacheKeys } :
         cache' = CacheAfter(
                    [k \in CacheKeys |-> IF k \in keys THEN NoFile ELSE cache.files[k]],
                    [k \in CacheKeys |->
                        IF k \in keys THEN [has |-> FALSE, value |-> "none", at |-> 0]
                        ELSE cache.latest[k]],
                    [NoCacheOp EXCEPT !.op = "clear", !.at = now])
    /\ UNCHANGED <<cacheRest, now>>

InitCache == InitApplied

NextCache ==
    \/ Tick
    \/ CacheSet
    \/ CacheGet
    \/ CacheGetOrFetch
    \/ CacheClear

SpecCache == InitCache /\ [][NextCache]_vars

\* ============================================== the CLI fetch command
\* "radar fetch --incremental": a new process with a new NewsRadar (the
\* action NewRadar), then aggregate_with_stats() when the output file does
\* not exist and aggregate_incremental_with_stats(output_path) when it does.
CliAggregate ==
    /\ pc = "idle"
    /\ runs < MaxRuns
    /\ hist.done = 0
    /\ IF store_file = "absent"
       THEN /\ call' = "aggregate"
            /\ last_fetch' = Nothing
            /\ existing_urls' = {}
       ELSE /\ call' = "aggregate_incremental"
            /\ last_fetch' = GetLastFetchTime(stateDoc)
            /\ existing_urls' = IF config.sources # <<>> THEN ExistingUrls(storage) ELSE {}
    /\ StartRun

\* What the two save_to_json(articles, output_path) calls of the command
\* leave: each is JSONStorage.save(articles) with backup and overwrite at
\* their defaults (True), and both fall in the same second.
CliSaved(copies, ts, file, stored, articles) ==
    LET first == IF BackupWanted(TRUE, TRUE, file)
                 THEN WithBackup(copies, ts, file, stored) ELSE copies
        written == SerializeArticles(articles)
    IN [backups |-> WithBackup(first, ts, "sound", written), articles |-> written]

\* The end of the command: the returned articles are saved, twice, and the
\* process exits.
CliSaveOutput ==
    /\ pc = "done"
    /\ LET r == CliSaved(backups, now, store_file, storage, returned)
       IN /\ storage' = r.articles
          /\ backups' = r.backups
    /\ store_file' = "sound"
    /\ pc' = "idle"
    /\ idx' = 1
    /\ all_articles' = <<>>
    /\ last_fetch' = Nothing
    /\ existing_urls' = {}
    /\ returned' = <<>>
    /\ hist' = [prev |-> [hist.cur EXCEPT !.calls = <<>>], cur |-> NoRun,
                past |-> IF config.enable_deduplication
                         THEN hist.past \cup Range(returned) ELSE hist.past,
                done |-> hist.done + 1]
    /\ UNCHANGED <<config, upstream, stateVars, store_pc, store_op, dup, applied, cache,
                   procs, stateDoc, now, radarVars, call, runs, last_outcome>>

\* The command run again and again with a state file, on an output file
\* that does not exist at first.
InitCli ==
    /\ config \in { c \in Configs : c.hasState }
    /\ upstream = <<>>
    /\ InitRadar
    /\ storage = <<>>

NextCli ==
    \/ NewRadar
    \/ Tick
    \/ CliAggregate
    \/ ProcessSource
    \/ ApplyFilters
    \/ StampLastFetch
    \/ CliSaveOutput

SpecCli == InitCli /\ [][NextCli]_vars

\* ======================================= two processes on the same files
raceRest == <<config, upstream, now, radarVars, pc, localVars, runs, last_outcome, hist,
              state_op, state_ghost, store_pc, store_op, dup, applied, cache>>

\* The lists the processes append: one article each.
RaceBatches == { b \in Batches : Len(b) = 1 }

Other(p) == CHOOSE q \in Procs : q # p

\* (variant: the document is read again under a lock held until it is
\* written)
WrittenDocLocked(read, file, doc, source, count, t) ==
    UpdateSourceStats(StateLoad(file, doc).doc, source, count, t)

\* update_source_stats: what is saved is computed from the document load()
\* returned at the start of the call, whatever the file holds by now.
WrittenDoc(read, file, doc, source, count, t) == UpdateSourceStats(read, source, count, t)

\* append: "combined = existing + new_articles", from what load() returned.
WrittenArticles(read, batch) == SerializeArticles(read \o AppendNew(read, batch, TRUE))

\* A process calls state.update_source_stats(source, count) or
\* storage.append(batch).
RaceCall(p) ==
    /\ procs.of[p].pc = "done"
    /\ procs.calls < MaxRaceCalls
    /\ \/ \E source \in StateSources, count \in 1..MaxCount :
            procs' = [procs EXCEPT
                        !.of[p] = [NoProc EXCEPT !.op = "update", !.source = source,
                                                 !.count = count, !.pc = "start"],
                        !.calls = @ + 1]
       \/ \E batch \in RaceBatches :
            procs' = [procs EXCEPT
                        !.of[p] = [NoProc EXCEPT !.op = "append", !.batch = batch,
                                                 !.pc = "start"],
                        !.calls = @ + 1]
    /\ UNCHANGED <<raceRest, stateDoc, state_file, storage, store_file, backups>>

\* "state = self.load()" / "existing = self.load()": a file another process
\* has opened for writing and not yet written reads as empty.
RaceLoad(p) ==
    /\ procs.of[p].pc = "start"
    /\ procs' = [procs EXCEPT
                    !.of[p].pc = "loaded",
                    !.of[p].doc = StateLoad(state_file, stateDoc).doc,
                    !.of[p].articles = StoreLoad(store_file, storage).articles]
    /\ UNCHANGED <<raceRest, stateDoc, state_file, storage, store_file, backups>>

\* open(path, "w") in save: the file is truncated (append saves with a
\* backup copy first).  Two processes that hold the file open for writing
\* at the same time write over each other.
RaceOpen(p) ==
    /\ procs.of[p].pc = "loaded"
    /\ LET q == Other(p)
           both == procs.of[q].pc = "writing" /\ procs.of[q].op = procs.of[p].op
       IN procs' = [procs EXCEPT
                       !.of[p].pc = "writing",
                       !.of[p].mixed = both,
                       !.of[q].mixed = @ \/ both]
    /\ IF procs.of[p].op = "update"
       THEN /\ state_file' = "malformed"
            /\ stateDoc' = EmptyStateDoc
            /\ UNCHANGED <<storage, store_file, backups>>
       ELSE /\ backups' = IF BackupWanted(TRUE, TRUE, store_file)
                          THEN WithBackup(backups, now, store_file, storage)
                          ELSE backups
            /\ store_file' = "malformed"
            /\ storage' = <<>>
            /\ UNCHANGED <<stateDoc, state_file>>
    /\ UNCHANGED raceRest

\* json.dump and close.  The bytes of two writers that overlapped can mix
\* into text that is not JSON.
RaceDump(p) ==
    /\ procs.of[p].pc = "writing"
    /\ \E mixes \in (IF procs.of[p].mixed THEN BOOLEAN ELSE {FALSE}) :
         IF procs.of[p].op = "update"
         THEN /\ state_file' = IF mixes THEN "malformed" ELSE "sound"
              /\ stateDoc' = IF mixes THEN EmptyStateDoc
                             ELSE WrittenDoc(procs.of[p].doc, state_file, stateDoc,
                                             procs.of[p].source, procs.of[p].count, now)
              /\ procs' = [procs EXCEPT
                              !.of[p].pc = "done",
                              !.last.state = procs.of[p],
                              !.updates[procs.of[p].source] = @ + 1]
              /\ UNCHANGED <<storage, store_file>>
         ELSE /\ store_file' = IF mixes THEN "malformed" ELSE "sound"
              /\ storage' = IF mixes THEN <<>>
                            ELSE WrittenArticles(procs.of[p].articles, procs.of[p].batch)
              /\ procs' = [procs EXCEPT
                              !.of[p].pc = "done",
                              !.last.store = procs.of[p],
                              !.appended = @ \cup ExistingUrls(procs.of[p].batch)]
              /\ UNCHANGED <<stateDoc, state_file>>
    /\ UNCHANGED <<raceRest, backups>>

InitRace == InitApplied

NextRace ==
    \E p \in Procs :
        \/ RaceCall(p)
        \/ RaceLoad(p)
        \/ RaceOpen(p)
        \/ RaceDump(p)

SpecRace == InitRace /\ [][NextRace]_vars

\* ================================================================ claims
ArticlesOf(list) == { list[i] : i \in 1..Len(list) }

\* The articles parse() makes of what source i serves (fixed content).
Parsed(i) == IF config.sources[i] = "html" THEN HtmlParse(upstream[i]) ELSE RssParse(upstream[i])

PassesTimeAndTopic(a) == InWindow(a, cutoff_time) /\ Score(a) >= MinScore

\* C1: in aggregate(), a source whose processing raises an exception adds no
\* article and adds 1 to sources_failed, the exception does not end the run,
\* and the loop goes on with the next source in configuration order; the
\* filters start only after the last source.
C1_ExceptionContained ==
    /\ [][ (pc = "fetching" /\ ~Incremental /\ last_outcome' = "exception")
             => /\ all_articles' = all_articles
                /\ stats'.sources_failed = stats.sources_failed + 1
                /\ idx' = idx + 1
                /\ pc' = IF idx < NumSources THEN "fetching" ELSE "filtering" ]_vars
    /\ [](pc \in {"filtering", "stamping"} => idx = NumSources + 1)

\* An aggregate() run is over, its first source raised, its second delivered.
C1_Witness ==
    /\ pc = "done"
    /\ call = "aggregate"
    /\ NumSources = 2
    /\ stats.sources_failed = 1
    /\ stats.sources_processed = 1
    /\ config.sources[1] \in {"rss", "html"}
    /\ all_articles # <<>>

\* C2: when the fetch of an rss or html source fails with a FetchError, or
\* its content with a ParseError, the run continues and the source is counted
\* in sources_failed, not in sources_processed.
C2_FetchErrorCountedFailed ==
    [][ (pc = "fetching" /\ last_outcome' \in {"fetch_error", "parse_error"})
          => /\ pc' \in {"fetching", "filtering"}
             /\ stats'.sources_failed = stats.sources_failed + 1
             /\ stats'.sources_processed = stats.sources_processed ]_vars

\* C3: every _process_source call adds exactly 1 to exactly one of
\* sources_processed and sources_failed, whatever the source type and whether
\* or not an exception is raised; a source of unknown type adds to
\* sources_failed and returns no article.
C3_ExactlyOneCounter ==
    [][ pc = "fetching"
          => /\ stats'.sources_processed \in {stats.sources_processed, stats.sources_processed + 1}
             /\ stats'.sources_failed \in {stats.sources_failed, stats.sources_failed + 1}
             /\ stats'.sources_processed + stats'.sources_failed
                  = stats.sources_processed + stats.sources_failed + 1
             /\ (config.sources[idx] = "unknown"
                   => /\ stats'.sources_failed = stats.sources_failed + 1
                      /\ all_articles' = all_articles) ]_vars

\* An incremental run with a cursor went over an OPML source whose feed
\* raised and over a source of unknown type, and over one that delivered.
C3_Witness ==
    /\ pc = "filtering"
    /\ last_fetch.has
    /\ config.sources[NumSources] = "unknown"
    /\ stats.sources_processed >= 1
    /\ stats.sources_failed >= 2
    /\ \E i \in 1..NumSources : config.sources[i] = "opml"

\* C4: a second aggregate_incremental run in succession, against the same
\* state and storage files and with every source serving what it served to
\* the first run, ends with new_articles = 0.
C4_SecondRunNothingNew ==
    (pc = "done" /\ Incremental /\ runs = 2 /\ NumSources > 0
        /\ hist.prev.failed = {} /\ hist.cur.failed = {})
      => stats.new_articles = 0

\* C5: with a last_fetch_time, the articles of a source that survive the time
\* slicing are exactly those with no parseable date or a date strictly after
\* last_fetch_time; one dated at or before it does not reach the filters.
C5_SliceKeepsUndatedOrNewer ==
    [][ (pc = "fetching" /\ Incremental /\ last_fetch.has /\ last_outcome' = "ok")
          => all_articles' = all_articles \o
               SelectSeq(NotExisting(Parsed(idx), existing_urls),
                         LAMBDA a : \/ a.date.kind = "none"
                                    \/ a.date.kind # "none" /\ a.date.t > last_fetch.t) ]_vars

\* C6 as stated: no article returned by aggregate_incremental(storage_file)
\* has the URL of an article of the storage file.
C6_NoStoredUrlReturned ==
    (pc = "done" /\ call = "aggregate_incremental")
      => \A a \in ArticlesOf(returned) : a.url \notin ExistingUrls(storage)

\* C6, amended: when a state store is configured, no article returned by
\* aggregate_incremental(storage_file) and no article counted in new_articles
\* has the URL of an article that was in the storage file when the run began.
C6_NoStoredUrlWithStateStore ==
    (call = "aggregate_incremental" /\ config.hasState /\ pc # "idle" /\ NumSources > 0)
      => /\ existing_urls = ExistingUrls(storage)
         /\ \A a \in ArticlesOf(all_articles) \cup ArticlesOf(returned) :
               a.url \notin ExistingUrls(storage)
         /\ (pc \in {"stamping", "done"} => stats.new_articles = Len(all_articles))

\* An incremental run against a non-empty storage file returned an article.
C6_Witness ==
    /\ pc = "done"
    /\ Incremental
    /\ storage # <<>>
    /\ returned # <<>>
    /\ stats.new_articles > 0

\* C7: when a source fails in one incremental run and succeeds in the next,
\* every article of it that was published before the first of the two runs,
\* is not in storage and passes the filters is returned by the second run
\* (or dropped there as the duplicate of an article the filter has seen).
C7_FailedSourceRetried ==
    (pc = "done" /\ Incremental /\ runs = 2 /\ last_fetch.has)
      => \A i \in hist.prev.failed \ hist.cur.failed :
           \A a \in ArticlesOf(Parsed(i)) :
             ( /\ a.date.kind # "none"
               /\ a.date.t <= last_fetch.t
               /\ a.url \notin ExistingUrls(storage)
               /\ PassesTimeAndTopic(a) )
             => \/ Scored(a) \in ArticlesOf(returned)
                \/ /\ config.enable_deduplication
                   /\ IsDuplicate(a, TRUE, seen_urls, seen_titles)

\* C8: aggregate_incremental (of a radar with a state store, which is where
\* last_fetch_time lives) writes last_fetch_time once per run, after the
\* last source and after the filters, as the current time; the stored value
\* never moves backwards, and a radar without sources never writes it.
C8_LastFetchStamp ==
    /\ [][ stateDoc'.last_fetch_time # stateDoc.last_fetch_time
             => /\ pc = "stamping"
                /\ pc' = "done"
                /\ idx = NumSources + 1
                /\ stats.total_fetched = Len(all_articles)
                /\ stats.total_kept = Len(returned)
                /\ stateDoc'.last_fetch_time = Just(now)
                /\ (stateDoc.last_fetch_time.has => stateDoc.last_fetch_time.t <= now) ]_vars
    /\ []((pc = "done" /\ Incremental /\ NumSources > 0)
            => stateDoc.last_fetch_time = Just(now))
    /\ [](NumSources = 0 => ~stateDoc.last_fetch_time.has)

\* The second incremental run stamped a later time over the first run's.
C8_Witness ==
    /\ pc = "done"
    /\ Incremental
    /\ runs = 2
    /\ last_fetch.has
    /\ stateDoc.last_fetch_time.has
    /\ stateDoc.last_fetch_time.t > last_fetch.t

\* C9: the filters run once, after the last source, over the concatenated
\* list: what is returned passed the time and the topic filter, an article
\* that passed both is returned unless the duplicate filter (only when
\* deduplication is enabled) dropped it, and the seen sets of the duplicate
\* filter only ever receive articles that passed both.
C9_FilterOrder ==
    /\ [][ pc = "filtering"
             => /\ idx = NumSources + 1
                /\ \A r \in ArticlesOf(returned') :
                     \E a \in ArticlesOf(all_articles) :
                        r = Scored(a) /\ PassesTimeAndTopic(a)
                /\ \A a \in ArticlesOf(all_articles) :
                     PassesTimeAndTopic(a)
                       => \/ Scored(a) \in ArticlesOf(returned')
                          \/ /\ config.enable_deduplication
                             /\ IsDuplicate(a, TRUE, seen_urls', seen_titles') ]_vars
    /\ [][ (seen_urls' # seen_urls \/ seen_titles' # seen_titles)
             => \/ pc = "idle" /\ seen_urls' = {} /\ seen_titles' = {}
                \/ /\ pc = "filtering"
                   /\ config.enable_deduplication
                   /\ seen_urls \subseteq seen_urls'
                   /\ seen_titles \subseteq seen_titles'
                   /\ seen_urls' \ seen_urls \subseteq
                        { a.url : a \in { x \in ArticlesOf(all_articles) : PassesTimeAndTopic(x) } }
                   /\ seen_titles' \ seen_titles \subseteq
                        { Lower(a.title) :
                            a \in { x \in ArticlesOf(all_articles) : PassesTimeAndTopic(x) } } ]_vars

\* Two sources were concatenated; an article that fails a filter came before
\* one with the same URL that was kept and tracked.
C9_Witness ==
    /\ pc = "done"
    /\ config.enable_deduplication
    /\ NumSources = 2
    /\ Len(all_articles) = 2
    /\ ~PassesTimeAndTopic(all_articles[1])
    /\ all_articles[1].url = all_articles[2].url
    /\ returned = <<Scored(all_articles[2])>>
    /\ all_articles[2].url \in seen_urls

\* C10: after a completed run over at least one source, total_fetched is the
\* number of articles handed to the filters, total_kept the number returned,
\* total_filtered their difference, 0 <= total_kept <= total_fetched, and in
\* incremental mode new_articles = total_fetched.
C10_RunStatistics ==
    (pc = "done" /\ NumSources > 0)
      => /\ stats.total_fetched = Len(all_articles)
         /\ stats.total_kept = Len(returned)
         /\ stats.total_filtered = stats.total_fetched - stats.total_kept
         /\ 0 <= stats.total_kept
         /\ stats.total_kept <= stats.total_fetched
         /\ (Incremental => stats.new_articles = stats.total_fetched)

\* An incremental run fetched two new articles and kept one.
C10_Witness ==
    /\ pc = "done"
    /\ Incremental
    /\ stats.total_fetched = 2
    /\ stats.total_kept = 1
    /\ stats.total_filtered = 1
RECURSIVE SumCounts(_)
SumCounts(calls) == IF calls = <<>> THEN 0 ELSE Head(calls).count + SumCounts(Tail(calls))

\* C11: during one aggregate_incremental run update_source_stats is called
\* once per configured source, in source order, also for a source that failed
\* or has an unknown type (with count 0); each call shows in the state store,
\* and the counts recorded during the run add up to stats.new_articles.
C11_StatsPerSource ==
    /\ [][ (pc = "fetching" /\ Incremental)
             => /\ Len(hist'.cur.calls) = idx
                /\ SubSeq(hist'.cur.calls, 1, idx - 1) = hist.cur.calls
                /\ hist'.cur.calls[idx].source = SourceName(idx)
                /\ hist'.cur.calls[idx].count = Len(all_articles') - Len(all_articles)
                /\ (last_outcome' \in {"exception", "unknown_type"}
                      => hist'.cur.calls[idx].count = 0)
                /\ StatsOf(stateDoc', SourceName(idx)).fetch_count
                     = StatsOf(stateDoc, SourceName(idx)).fetch_count + 1
                /\ StatsOf(stateDoc', SourceName(idx)).total_articles
                     = StatsOf(stateDoc, SourceName(idx)).total_articles
                       + hist'.cur.calls[idx].count
                /\ \A o \in 1..NumSources :
                     o # SourceName(idx) => StatsOf(stateDoc', o) = StatsOf(stateDoc, o) ]_vars
    /\ []((pc \in {"filtering", "stamping", "done"} /\ Incremental /\ NumSources > 0)
            => /\ Len(hist.cur.calls) = NumSources
               /\ \A i \in 1..NumSources : hist.cur.calls[i].source = SourceName(i))
    /\ []((pc \in {"stamping", "done"} /\ Incremental /\ NumSources > 0)
            => SumCounts(hist.cur.calls) = stats.new_articles)

\* An incremental run over a source that raised and one that brought an
\* article: two calls, counts 0 and 1.
C11_Witness ==
    /\ pc = "done"
    /\ Incremental
    /\ NumSources = 2
    /\ stats.sources_failed >= 1
    /\ hist.cur.calls = <<[source |-> SourceName(1), count |-> 0],
                          [source |-> SourceName(2), count |-> 1]>>
    /\ stats.new_articles = 1
\* C12: after any sequence of update_source_stats calls on a state document
\* that was absent at first (no clear in between, the file never damaged or
\* half-written), for every source total_articles is the sum of the counts
\* passed for it and fetch_count the number of calls made for it.
C12_CountersAreSums ==
    state_ghost.clean
      => /\ state_file = "sound"
         /\ \A s \in StateSources :
              /\ StatsOf(stateDoc, s).total_articles = state_ghost.sums[s].total_articles
              /\ StatsOf(stateDoc, s).fetch_count = state_ghost.sums[s].fetch_count

\* Two calls for one source (counts 1 and 2), one for another, and a
\* set_last_fetch_time in between.
C12_Witness ==
    /\ state_ghost.clean
    /\ state_ghost.sums[1] = [total_articles |-> 3, fetch_count |-> 2]
    /\ state_ghost.sums[2].fetch_count = 1
    /\ stateDoc.last_fetch_time.has
    /\ StatsOf(stateDoc, 1).total_articles = 3

\* C13: whatever set_last_fetch_time, update_source_stats, load, failed saves
\* and corrupt loads happen, no source's total_articles or fetch_count in the
\* state document is ever below a value it had earlier, unless clear() was
\* called in between.
C13_CountersNeverDecrease ==
    state_file = "sound"
      => \A s \in StateSources :
           /\ StatsOf(stateDoc, s).total_articles >= state_ghost.high[s].total_articles
           /\ StatsOf(stateDoc, s).fetch_count >= state_ghost.high[s].fetch_count

\* C14: a set_last_fetch_time(ts) that returns leaves source_stats as it was
\* and a get_last_fetch_time() after it returns ts; an update_source_stats(s,
\* c) that returns leaves last_fetch_time and every other source's entry as
\* they were.
C14_StateFrame ==
    [][ (state_ghost'.ops = state_ghost.ops + 1 /\ ~state_op'.raised)
          => LET was == StateLoad(state_file, stateDoc).doc
             IN /\ state_op'.op = "set"
                     => /\ stateDoc'.source_stats = was.source_stats
                        /\ StateGet(state_file', stateDoc')
                             = [raised |-> FALSE, value |-> Just(now)]
                /\ state_op'.op = "update"
                     => /\ stateDoc'.last_fetch_time = was.last_fetch_time
                        /\ DOMAIN stateDoc'.source_stats
                             = DOMAIN was.source_stats \cup {state_op'.source}
                        /\ \A o \in DOMAIN was.source_stats :
                             o # state_op'.source
                               => stateDoc'.source_stats[o] = was.source_stats[o] ]_vars

\* A set_last_fetch_time returned on a document that holds statistics of two
\* sources and an earlier last_fetch_time.
C14_Witness ==
    /\ state_op.op = "set"
    /\ ~state_op.raised
    /\ state_op.before.last_fetch_time.has
    /\ state_op.before.last_fetch_time # stateDoc.last_fetch_time
    /\ DOMAIN stateDoc.source_stats = StateSources

\* C15: when the state file is missing or corrupt, State.load returns the
\* empty document and get_last_fetch_time returns None; no read of the state,
\* and no incremental run reading it, fails because of the corrupt file.
C15_CorruptStateIsNoState ==
    (state_op.op \in {"load", "get", "run"}
        /\ (state_file # "sound" \/ stateDoc = EmptyStateDoc))
      => /\ ~state_op.raised
         /\ state_op.isDoc
         /\ state_op.before = EmptyStateDoc
         /\ state_op.value = Nothing
\* What the round trip is said to give for an article: keys starting with
\* "_" gone, a datetime as its ISO-8601 string, anything else as it was.
ExpectedStored(a) ==
    [a EXCEPT !.ai_score = -1,
              !.date = IF @.kind \in {"aware", "naive"} THEN IsoOf(@) ELSE @]

DistinctUrls(articles) ==
    \A i, j \in 1..Len(articles) : articles[i].url = articles[j].url => i = j

\* C16: save(articles) followed by load() returns the same articles in the
\* same order, without the keys that start with "_" and with datetimes as
\* ISO-8601 strings; every other value, a null date included, is unchanged.
C16_SaveLoadRoundTrip ==
    (store_op.op = "save" /\ store_pc = "idle" /\ ~store_op.raised)
      => /\ ~StoreLoad(store_file, storage).raised
         /\ StoreLoad(store_file, storage).articles
              = [i \in 1..Len(store_op.batch) |-> ExpectedStored(store_op.batch[i])]

\* C17: from a store whose URLs are pairwise distinct, after
\* append(batch, deduplicate=True) the stored URLs are still pairwise
\* distinct and every article stored before is still in its place; a batch
\* whose URLs are all stored already leaves the count unchanged.
C17_AppendKeepsUrlsDistinct ==
    (store_op.op = "append" /\ store_pc = "idle" /\ ~store_op.raised
        /\ store_op.deduplicate
        /\ store_op.priorFile \in {"absent", "sound"}
        /\ DistinctUrls(store_op.prior))
      => /\ DistinctUrls(storage)
         /\ Len(storage) >= Len(store_op.prior)
         /\ SubSeq(storage, 1, Len(store_op.prior)) = store_op.prior
         /\ (ExistingUrls(store_op.batch) \subseteq ExistingUrls(store_op.prior)
               => Len(storage) = Len(store_op.prior))

C19_StorageFailuresPropagate ==
    (store_op.op \in {"load", "save", "append"} /\ store_pc = "idle" /\ store_op.failed)
      => store_op.raised

\* The title of a is equal or similar to the tracked (non-empty) title of b:
\* what the title check compares.
TitleDup(a, b) ==
    /\ b.title # <<>>
    /\ \/ Lower(a.title) = Lower(b.title)
       \/ Similar(Lower(a.title), Lower(b.title))

FirstWithUrl(list, k) == \A m \in 1..(k - 1) : list[m].url # list[k].url

KeptUrls == { a.url : a \in ArticlesOf(dup.kept) }
KeptTitles == { Lower(a.title) : a \in ArticlesOf(dup.kept) }
KeptHashes == { ContentHash(a) : a \in ArticlesOf(dup.kept) }

\* C21 as stated: after every filter() call, for each enabled check the seen
\* set holds exactly the keys (URL, lowercased title, content hash) of the
\* articles kept since the last reset().
C21_SeenSetsAreKeptKeys ==
    /\ dup.by_url => seen_urls = KeptUrls
    /\ dup.by_title => seen_titles = KeptTitles
    /\ dup.by_content => dup.seen_hashes = KeptHashes

\* C21: after every filter() call, for each enabled check the seen set holds
\* exactly the non-empty keys of the articles kept since the last reset()
\* (an empty URL and an empty title are never added, a content hash always
\* is); the seen set of a disabled check stays empty, and an article dropped
\* as a duplicate adds nothing to any seen set.
C21_SeenSetsAreNonEmptyKeptKeys ==
    /\ seen_urls = IF dup.by_url THEN KeptUrls \ {""} ELSE {}
    /\ seen_titles = IF dup.by_title THEN KeptTitles \ {<<>>} ELSE {}
    /\ dup.seen_hashes = IF dup.by_content THEN KeptHashes ELSE {}

\* All three checks enabled; an article was dropped as a duplicate, and
\* articles with an empty URL and with an empty title were kept.
C21_Witness ==
    /\ dup.by_url /\ dup.by_title /\ dup.by_content
    /\ Len(dup.kept) < Len(dup.presented)
    /\ "" \in KeptUrls
    /\ <<>> \in KeptTitles
    /\ seen_urls # {}
\* C22: after reset() a DuplicateFilter behaves like a freshly constructed
\* one with the same settings: its seen sets are empty and its switches are
\* the ones it was built with, and a filter(X) call made right after reset()
\* returns what filter(X) returned as the first call on the object, whatever
\* was filtered in between.
C22_ResetIsFresh ==
    [][ /\ (dup'.resets = 1 /\ dup'.presented = <<>>)
            => /\ seen_urls' = {} /\ seen_titles' = {} /\ dup'.seen_hashes = {}
               /\ dup'.by_url = dup.by_url
               /\ dup'.by_title = dup.by_title
               /\ dup'.by_content = dup.by_content
        /\ (dup.resets = 1 /\ dup.presented = <<>> /\ dup'.calls = dup.calls + 1
              /\ dup'.presented = dup.first.articles)
            => dup'.kept = dup.first.kept ]_vars

\* After a reset the list of the first call was filtered again, following
\* calls that had left URLs, titles and hashes in the seen sets, and came
\* back as it did the first time, duplicates inside it dropped again.
C22_Witness ==
    /\ dup.resets = 1
    /\ dup.by_url /\ dup.by_title /\ dup.by_content
    /\ dup.calls >= 2
    /\ dup.presented = dup.first.articles
    /\ dup.kept = dup.first.kept
    /\ Len(dup.kept) = 1
    /\ Len(dup.presented) = 2
\* The sequence-similarity ratio 2*M/T of two strings is at least the
\* threshold (in hundredths); two empty strings have ratio 1.
RatioAtLeast(a, b, threshold) ==
    IF Len(a) + Len(b) = 0 THEN 100 >= threshold
    ELSE 200 * MatchCount(a, b) >= threshold * (Len(a) + Len(b))

\* The title rule: a is dropped when its lowercased title equals, or is
\* similar enough to, the title of an article kept earlier (only the
\* non-empty titles counting when nonEmptyOnly).
DroppedByTitle(a, earlier, threshold, nonEmptyOnly) ==
    \E i \in 1..Len(earlier) :
        /\ nonEmptyOnly => earlier[i].title # <<>>
        /\ \/ Lower(a.title) = Lower(earlier[i].title)
           \/ RatioAtLeast(Lower(a.title), Lower(earlier[i].title), threshold)

RECURSIVE KeptByTitleRule(_, _, _, _)
KeptByTitleRule(articles, kept, threshold, nonEmptyOnly) ==
    IF articles = <<>> THEN kept
    ELSE KeptByTitleRule(Tail(articles),
                         IF DroppedByTitle(Head(articles), kept, threshold, nonEmptyOnly)
                         THEN kept ELSE Append(kept, Head(articles)),
                         threshold, nonEmptyOnly)

TitledArticle(t) == [url |-> "u1", title |-> t, date |-> NoDate, tiers |-> {}, ai_score |-> -1]

\* C23 as stated: with only title checking enabled an article is dropped if
\* and only if its lowercased title equals, or has ratio >= the threshold
\* with, the title of an article kept earlier.
C23_DroppedIffTitleOfKept ==
    (dup.by_title /\ ~dup.by_url /\ ~dup.by_content)
      => dup.kept = KeptByTitleRule(dup.presented, <<>>, dup.threshold, FALSE)

\* C23: with only title checking enabled an article is dropped if and only
\* if its lowercased title equals, or has sequence-similarity ratio >= the
\* threshold (boundary inclusive) with, the non-empty title of an article
\* kept earlier; "AI News Today" and "AI News" are both kept at threshold
\* 0.9 and only the first at 0.5; "a" then "abc" (ratio exactly 0.5) keeps
\* only the first at 0.5.
C23_DroppedIffNonEmptyTitleOfKept ==
    (dup.by_title /\ ~dup.by_url /\ ~dup.by_content)
      => /\ dup.kept = KeptByTitleRule(dup.presented, <<>>, dup.threshold, TRUE)
         /\ dup.presented = <<TitledArticle(TitleAiNewsToday), TitledArticle(TitleAiNews)>>
              => /\ dup.threshold = 90 => dup.kept = dup.presented
                 /\ dup.threshold = 50 => dup.kept = <<TitledArticle(TitleAiNewsToday)>>
         /\ (dup.presented = <<TitledArticle(TitleA), TitledArticle(TitleLowerAbc)>>
               /\ dup.threshold = 50)
              => dup.kept = <<TitledArticle(TitleA)>>

\* At threshold 0.5 "AI News Today" and then, in a second call, "AI News"
\* were filtered and only the first was kept.
C23_Witness ==
    /\ dup.by_title /\ ~dup.by_url /\ ~dup.by_content
    /\ dup.threshold = 50
    /\ dup.calls = 2
    /\ dup.presented = <<TitledArticle(TitleAiNewsToday), TitledArticle(TitleAiNews)>>
    /\ dup.kept = <<TitledArticle(TitleAiNewsToday)>>
\* The normalized URL as described: lowercased, tracking parameters removed.
NormalizedAsDescribed(u) == [base |-> u.base, upper |-> FALSE, tracking |-> {}]

\* C24: merge_duplicates returns exactly one record per distinct normalized
\* URL of its input (lowercased, tracking parameters removed), a URL that
\* occurs once passing through unchanged, and the call completes without
\* error.
C24_MergeOnePerNormalizedUrl ==
    applied.fn = "merge_duplicates" =>
      LET in == applied.articles
          out == applied.result.merged
          norm(list) == { NormalizedAsDescribed(list[i].url) : i \in 1..Len(list) }
      IN /\ ~applied.result.raised
         /\ Len(out) = Cardinality(norm(in))
         /\ norm(out) = norm(in)
         /\ \A i \in 1..Len(in) :
               (\A j \in 1..Len(in) :
                   NormalizedAsDescribed(in[j].url) = NormalizedAsDescribed(in[i].url) => j = i)
                 => in[i] \in ArticlesOf(out)
\* C25: for a TimeFilter(hours=24), whenever filter() is called, an article
\* dated 23h59m before the call is kept and one dated 25h before the call is
\* dropped; an article with a null date is dropped, and a naive date counts
\* as UTC.
C25_WindowRelativeToCall ==
    (applied.fn = "TimeFilter" /\ applied.called.has) =>
      \A i \in 1..Len(applied.articles) :
         LET a == applied.articles[i]
             kept == a \in ArticlesOf(applied.result)
         IN /\ a.date.kind = "none" => ~kept
            /\ (a.date.kind # "none" /\ a.date.t = applied.called.t - 1439) => kept
            /\ (a.date.kind # "none" /\ a.date.t = applied.called.t - 1500) => ~kept
\* C26: AITopicFilter.score returns the fixed score of the first matching
\* tier in priority order: 1.0 if any primary keyword matches, whatever else
\* matches, else 0.7 if any secondary keyword matches, else 0.5 if any alias
\* matches, else 0.0; the number of matching keywords plays no part.
C26_ScoreByFirstTier ==
    applied.fn = "score" =>
      LET m == applied.matches
      IN /\ m["primary"] > 0 => applied.result = 10
         /\ (m["primary"] = 0 /\ m["secondary"] > 0) => applied.result = 7
         /\ (m["primary"] = 0 /\ m["secondary"] = 0 /\ m["alias"] > 0) => applied.result = 5
         /\ (m["primary"] = 0 /\ m["secondary"] = 0 /\ m["alias"] = 0) => applied.result = 0

\* One primary keyword among several secondary ones and aliases: score 1.0.
C26_Witness ==
    /\ applied.fn = "score"
    /\ applied.matches["primary"] = 1
    /\ applied.matches["secondary"] = MaxMatches
    /\ applied.matches["alias"] = 2
    /\ applied.result = 10
\* A raw value that is no text after trimming.
NoText(v) == v \in {"absent", "none", "empty", "blank"}

\* C27: for every article A, normalize([A]) returns the empty list if A's
\* title or url is empty or whitespace after trimming, and otherwise exactly
\* one record whose title, url and description are trimmed and whose
\* language is "en" whenever A gives no non-empty language.
C27_NormalizeOne ==
    applied.fn = "normalize" =>
      LET a == applied.article
          out == applied.result.records
      IN /\ ~applied.result.raised
         /\ IF NoText(a.title) \/ NoText(a.url)
            THEN out = <<>>
            ELSE /\ Len(out) = 1
                 /\ out[1].title = "plain"
                 /\ out[1].url = "plain"
                 /\ out[1].description = IF NoText(a.description) THEN "empty" ELSE "plain"
                 /\ a.language \in {"absent", "none", "empty"} => out[1].language = "en"
\* C28: parse with max_entries = N (RSS) or max_articles = N (HTML) returns
\* at most N articles for every N >= 0, all from the first N entries in
\* document order; an invalid entry among the first N is dropped and not
\* replaced by a later one.
C28_AtMostNFromFirstN ==
    applied.fn = "parse" =>
      LET firstN == 1..Min(applied.cap, Len(applied.feed))
      IN /\ Len(applied.result) <= applied.cap
         /\ applied.result = ValidAmong(applied.feed, [i \in firstN |-> i])
\* What the cache is described to answer for a key at time t under a TTL
\* override: the value most recently set, while its age is within the TTL.
DescribedAnswer(k, override, t) ==
    IF cache.latest[k].has /\ t - cache.latest[k].at <= TtlInForce(override)
    THEN cache.latest[k].value
    ELSE "none"

\* C29: get(k) returns the value most recently set for k as long as the
\* entry's age does not exceed the TTL in force (the override of the call,
\* else the manager's default), and None once the entry is older than the
\* TTL, was never set, or was cleared.
C29_GetReturnsLatestWithinTtl ==
    cache.op.op = "get" =>
        cache.op.result = DescribedAnswer(cache.op.key, cache.op.ttl, cache.op.at)

\* C30: get_or_fetch(k, f) calls f only when k has no unexpired entry; on a
\* hit it returns the cached value without calling f; after a miss the value
\* of f is stored, so that a following get(k) within the TTL returns it and
\* a following get_or_fetch(k, f) does not call f again.
C30_FetchOnlyOnMiss ==
    /\ cache.op.op = "get_or_fetch" =>
          /\ cache.op.called
                <=> IsExpired(cache.op.before, TtlInForce(cache.op.ttl), cache.op.at)
          /\ ~cache.op.called => cache.op.result = cache.op.before.content
          /\ cache.op.called => cache.op.result = cache.op.value
    /\ (/\ cache.prev.op = "get_or_fetch"
        /\ cache.prev.called
        /\ cache.op.key = cache.prev.key
        /\ cache.op.at - cache.prev.at <= TtlInForce(cache.op.ttl))
       => /\ cache.op.op = "get" => cache.op.result = cache.prev.value
          /\ cache.op.op = "get_or_fetch" => ~cache.op.called

\* C31: for any sequence of saves with backup enabled on one storage file,
\* every snapshot that was overwritten remains available, with its original
\* content, in some backup file: a backed-up snapshot that is no longer what
\* the storage file holds is still in some backup file after every step.
C31_OverwrittenSnapshotsKept ==
    [][\A k \in DOMAIN backups :
          (/\ store_pc = "idle"
           /\ backups[k].file = "sound"
           /\ backups[k].articles # storage)
          => \E j \in DOMAIN backups' : backups'[j] = backups[k]]_vars

\* C32: update_source_stats and append read the whole document and write
\* it back without a lock, so the file holds what its last writer computed
\* from what it had read, whatever was written in between: updates and
\* batches of interleaved calls are lost.
C32_LastWriterWins ==
    /\ (procs.last.state # NoProc /\ state_file = "sound")
       => LET w == procs.last.state
          IN stateDoc = UpdateSourceStats(w.doc, w.source, w.count, now)
    /\ (procs.last.store # NoProc /\ store_file = "sound")
       => LET w == procs.last.store
          IN storage = SerializeArticles(w.articles \o AppendNew(w.articles, w.batch, TRUE))

\* Two update_source_stats calls on one source have completed and its
\* fetch_count is 1; two append calls have completed and an article of one
\* of the batches is not in the file.
C32_Witness ==
    /\ \A p \in Procs : procs.of[p].pc = "done"
    /\ state_file = "sound"
    /\ store_file = "sound"
    /\ \E s \in StateSources :
         /\ procs.updates[s] = 2
         /\ StatsOf(stateDoc, s).fetch_count = 1
    /\ Cardinality(procs.appended) = 2
    /\ procs.appended \ ExistingUrls(storage) # {}

\* The list kept when an article is dropped exactly when an article kept
\* earlier has the same title, description and source.
RECURSIVE KeptBySameFields(_, _)
KeptBySameFields(articles, kept) ==
    IF articles = <<>> THEN kept
    ELSE LET a == Head(articles)
             same == \E i \in 1..Len(kept) :
                        /\ kept[i].title = a.title
                        /\ kept[i].description = a.description
                        /\ kept[i].source = a.source
         IN KeptBySameFields(Tail(articles), IF same THEN kept ELSE Append(kept, a))

\* C33: with only content-hash checking enabled, filter drops an article if
\* and only if an article kept earlier has the same title, the same
\* description and the same source; two articles that differ in any of the
\* three fields are both kept.
C33_DroppedIffSameFields ==
    applied.fn = "content_filter"
        => applied.kept = KeptBySameFields(applied.articles, <<>>)

\* C34: with deduplication enabled the orchestrator never resets its
\* duplicate filter, so an article returned by one aggregate() or
\* aggregate_incremental() call is not returned by a later call on the same
\* NewsRadar (nor is another article with its URL); a second aggregate()
\* after an aggregate() that fetched every source, over unchanged content,
\* returns the empty list.
C34_NotReturnedAgain ==
    (pc = "done" /\ config.enable_deduplication)
    => /\ \A i \in 1..Len(returned) :
            /\ returned[i] \notin hist.past
            /\ \A b \in hist.past : b.url # returned[i].url
       /\ (/\ hist.done >= 1
           /\ call = "aggregate"
           /\ hist.prev.call = "aggregate"
           /\ hist.prev.failed = {})
          => returned = <<>>

\* The second aggregate() on a NewsRadar has fetched every source again,
\* got articles that pass the time and topic filters, and returns nothing;
\* the first one returned articles.
C34_Witness ==
    /\ pc = "done"
    /\ config.enable_deduplication
    /\ hist.done = 1
    /\ call = "aggregate"
    /\ hist.prev.call = "aggregate"
    /\ hist.prev.failed = {}
    /\ hist.cur.failed = {}
    /\ hist.past # {}
    /\ TopicFilter(TimeFilter(all_articles, cutoff_time)) # <<>>
    /\ returned = <<>>

\* C35: an article stored in the JSON output file by one "fetch
\* --incremental" run is still present in the file after every later "fetch
\* --incremental" run on the same file.
C35_IncrementalRunOnlyAdds ==
    [][\A i \in 1..Len(storage) : \E j \in 1..Len(storage') : storage'[j] = storage[i]]_vars

\* C36: no article without a parseable date is ever returned by aggregate()
\* or aggregate_incremental(): the incremental time slice retains such
\* articles and new_articles counts every article that came through the
\* loop, they included, but the time filter removes them.
C36_NoUndatedReturned ==
    /\ \A i \in 1..Len(returned) : returned[i].date.kind # "none"
    /\ (pc \in {"stamping", "done"} /\ Incremental)
       => stats.new_articles = Len(all_articles)

\* An incremental run sliced by the last fetch time has kept an article
\* without a date through the loop, counted it, and returns without it.
C36_Witness ==
    /\ pc = "done"
    /\ Incremental
    /\ last_fetch.has
    /\ \E i \in 1..Len(all_articles) : all_articles[i].date.kind = "none"
    /\ stats.new_articles = Len(all_articles)
    /\ returned # <<>>
    /\ \A i \in 1..Len(returned) : returned[i].date.kind # "none"

\* C37: sources_processed and sources_failed are never reset between runs:
\* after the k-th completed call on one NewsRadar over its n configured
\* sources their sum is k*n, and neither counter decreases while the
\* instance lives.
C37_CountersAccumulate ==
    [][/\ pc' = "idle"
          => stats'.sources_processed + stats'.sources_failed = hist'.done * NumSources
       /\ hist'.done >= hist.done
          => /\ stats'.sources_processed >= stats.sources_processed
             /\ stats'.sources_failed >= stats.sources_failed]_vars

\* Two aggregate() calls on one NewsRadar with two sources have completed:
\* the counters add up to four, and both kinds of outcome were counted.
C37_Witness ==
    /\ pc = "idle"
    /\ call = "aggregate"
    /\ hist.prev.call = "aggregate"
    /\ hist.done = 2
    /\ NumSources = 2
    /\ stats.sources_processed + stats.sources_failed = 4
    /\ stats.sources_processed >= 1
    /\ stats.sources_failed >= 1

\* s is t with some of its elements left out.
RECURSIVE IsSubsequence(_, _)
IsSubsequence(s, t) ==
    \/ s = <<>>
    \/ /\ t # <<>>
       /\ IF Head(s) = Head(t) THEN IsSubsequence(Tail(s), Tail(t))
          ELSE IsSubsequence(s, Tail(t))

\* C38: the list returned is a subsequence of the concatenation of the
\* per-source article lists taken in source-configuration order: each
\* source's list is appended to what the sources before it gave, and the
\* filters then only leave articles out (each returned one carrying its
\* score), never reordering, repeating or creating one.
C38_ReturnedIsSubsequence ==
    [][/\ pc = "fetching"
          => /\ idx' = idx + 1
             /\ Len(all_articles') >= Len(all_articles)
             /\ SubSeq(all_articles', 1, Len(all_articles)) = all_articles
       /\ pc = "filtering"
          => /\ all_articles' = all_articles
             /\ IsSubsequence(returned',
                              [i \in 1..Len(all_articles) |-> Scored(all_articles[i])])]_vars

\* aggregate() over two sources returns two different articles, the one of
\* the first source before the one of the second.
C38_Witness ==
    /\ pc = "done"
    /\ call = "aggregate"
    /\ NumSources = 2
    /\ Len(all_articles) = 2
    /\ all_articles[1] # all_articles[2]
    /\ returned = <<Scored(all_articles[1]), Scored(all_articles[2])>>

====
